---- MODULE Spec2Model ----
(***************************************************************************)
(* A model of the helper layer of xk6-mongo (package xk6_mongo):           *)
(* option-key normalisation (normalizeKeys, toPascalCase, knownAcronyms),  *)
(* update-document classification and preparation (isPipelineUpdate,       *)
(* updateDocumentHasOperator, prepareUpdateDocument) and the client's      *)
(* update helpers that use them.                                           *)
(*                                                                         *)
(* A Go string is a sequence of one-character strings, so that prefixes,   *)
(* separators and letter case can be inspected: "user_id" is               *)
(* <<"u","s","e","r","_","i","d">>.                                        *)
(***************************************************************************)
EXTENDS Integers, Sequences, FiniteSets, TLC

VARIABLES
    input,        \* toPascalCase: the string handed to the call
    output,       \* toPascalCase: the string returned
    pcCase,       \* "idle" before the call, "done" after it
    nvalue,       \* normalizeKeys: the caller's option value, as it is now
    norig,        \* the caller's option value as it was before the first call
    nresult,      \* the value returned by the last call of normalizeKeys
    nprev,        \* the value returned by the call before the last
    pcNorm,       \* "idle", "once" (one call made), "twice" (two calls made)
    udata,        \* the update payload handed to the helper or client method
    ufilter,      \* the filter handed to the client method
    udatabase,    \* the database name handed to the client method
    ucollection,  \* the collection name handed to the client method
    ucall,        \* the function or method that was called, "none" before
    uret,         \* what it returned: [val |-> value, err |-> message]
    driverCalls,  \* the operations issued to the driver, in order
    client,       \* the *Client in hand: Unset, NilClient or a Client record
    uargs,        \* the other arguments of the client method (limit, field, count)
    events,       \* contexts made and cancelled, driver and cursor calls, in order
    driverConn,   \* the driver client's connection: "none", "connected", "disconnected"
    gvalue,       \* goroutines: the value they share, as it is now
    gorig,        \* the shared value as it was before any call
    gstate,       \* goroutine -> the helper it runs, its position and locals
    gaccess       \* the memory accesses made so far: [g, loc, write]

caseVars == <<input, output, pcCase>>

normVars == <<nvalue, norig, nresult, nprev, pcNorm>>

updVars == <<udata, ufilter, udatabase, ucollection, ucall, uret, driverCalls>>

cliVars == <<client, uargs, events, driverConn>>

concVars == <<gvalue, gorig, gstate, gaccess>>

vars == <<input, output, pcCase, nvalue, norig, nresult, nprev, pcNorm,
          udata, ufilter, udatabase, ucollection, ucall, uret, driverCalls,
          client, uargs, events, driverConn, gvalue, gorig, gstate, gaccess>>

(***************************************************************************)
(* Characters and strings                                                  *)
(***************************************************************************)
LowerLetters ==
    <<"a","b","c","d","e","f","g","h","i","j","k","l","m",
      "n","o","p","q","r","s","t","u","v","w","x","y","z">>

UpperLetters ==
    <<"A","B","C","D","E","F","G","H","I","J","K","L","M",
      "N","O","P","Q","R","S","T","U","V","W","X","Y","Z">>

\* the case mappings of the letters, as tables
LowerOf ==
    [c \in {UpperLetters[i] : i \in DOMAIN UpperLetters} |->
        LowerLetters[CHOOSE i \in DOMAIN UpperLetters : UpperLetters[i] = c]]

UpperOf ==
    [c \in {LowerLetters[i] : i \in DOMAIN LowerLetters} |->
        UpperLetters[CHOOSE i \in DOMAIN LowerLetters : LowerLetters[i] = c]]

IsUpper(c) == c \in DOMAIN LowerOf

IsLower(c) == c \in DOMAIN UpperOf

\* unicode.ToLower on one rune
ToLowerRune(c) == IF IsUpper(c) THEN LowerOf[c] ELSE c

\* unicode.ToUpper on one rune
ToUpperRune(c) == IF IsLower(c) THEN UpperOf[c] ELSE c

\* strings.ToLower
RECURSIVE ToLower(_)
ToLower(s) ==
    IF s = <<>> THEN <<>>
    ELSE <<ToLowerRune(Head(s))>> \o ToLower(Tail(s))

\* strings.HasPrefix(s, "$")
HasDollarPrefix(s) == Len(s) > 0 /\ s[1] = "$"

(***************************************************************************)
(* toPascalCase and the acronym table                                      *)
(***************************************************************************)
knownAcronyms ==
    (<<"a","p","i">> :> <<"A","P","I">>) @@
    (<<"i","d">> :> <<"I","D">>) @@
    (<<"u","r","i">> :> <<"U","R","I">>) @@
    (<<"t","l","s">> :> <<"T","L","S">>) @@
    (<<"o","c","s","p">> :> <<"O","C","S","P">>)

\* the callback of strings.FieldsFunc in toPascalCase
isSeparator(r) == r \in {"_", "-", " "}

\* strings.FieldsFunc: the maximal runs of non-separator runes, in order.
\* s: the string, i: the next rune, cur: the run being read, acc: the runs read
RECURSIVE FieldsFrom(_, _, _, _)
FieldsFrom(s, i, cur, acc) ==
    IF i > Len(s)
    THEN IF cur = <<>> THEN acc ELSE Append(acc, cur)
    ELSE IF isSeparator(s[i])
         THEN FieldsFrom(s, i + 1, <<>>, IF cur = <<>> THEN acc ELSE Append(acc, cur))
         ELSE FieldsFrom(s, i + 1, Append(cur, s[i]), acc)

FieldsFunc(s) == FieldsFrom(s, 1, <<>>, <<>>)

\* the acronym table's keys
acronymWords == DOMAIN knownAcronyms

\* a mutant of convertLowered: the acronym table is not consulted
convertLoweredNoAcronym(segment, lowerSegment) ==
    IF Len(segment) = 0 THEN segment
    ELSE <<ToUpperRune(Head(lowerSegment))>> \o Tail(lowerSegment)

\* a mutant of convertLowered: the first rune is not upper-cased
convertLoweredNoCapital(segment, lowerSegment) ==
    IF lowerSegment \in acronymWords
    THEN knownAcronyms[lowerSegment]
    ELSE IF Len(segment) = 0 THEN segment
         ELSE lowerSegment

\* the body of the loop over the segments in toPascalCase, lowerSegment being
\* strings.ToLower(segment)
convertLowered(segment, lowerSegment) ==
    IF lowerSegment \in acronymWords
    THEN knownAcronyms[lowerSegment]
    ELSE IF Len(segment) = 0 THEN segment
         ELSE <<ToUpperRune(Head(lowerSegment))>> \o Tail(lowerSegment)

convertSegment(segment) == convertLowered(segment, ToLower(segment))

\* the loop over the segments, and strings.Join(segments, "")
RECURSIVE convertSegments(_)
convertSegments(segments) ==
    IF segments = <<>> THEN <<>>
    ELSE convertSegment(Head(segments)) \o convertSegments(Tail(segments))

toPascalCase(str) ==
    IF str = <<>> THEN <<>>
    ELSE convertSegments(FieldsFunc(str))

(***************************************************************************)
(* Inputs of toPascalCase: every string over CaseAlphabet of at most       *)
(* MaxLen characters, and the inputs of TestToPascalCase.                  *)
(***************************************************************************)
MaxLen == 4

CaseAlphabet == {"a", "p", "i", "d", "A", "I", "D", "_", "-", " "}

RECURSIVE StringsUpTo(_)
StringsUpTo(n) ==
    IF n = 0 THEN {<<>>}
    ELSE LET shorter == StringsUpTo(n - 1) IN
         shorter \cup {Append(s, c) : s \in shorter, c \in CaseAlphabet}

S_snake_case == <<"s","n","a","k","e","_","c","a","s","e">>
S_kebab_case == <<"k","e","b","a","b","-","c","a","s","e">>
S_camelCase == <<"c","a","m","e","l","C","a","s","e">>
S_PascalCase == <<"P","a","s","c","a","l","C","a","s","e">>
S_apiKey == <<"a","p","i","K","e","y">>
S_with_spaces == <<"w","i","t","h"," ","s","p","a","c","e","s">>
S_user_id == <<"u","s","e","r","_","i","d">>
S_tls_config == <<"t","l","s","_","c","o","n","f","i","g">>
S_ocsp_enabled == <<"o","c","s","p","_","e","n","a","b","l","e","d">>
S_server_api_version ==
    <<"s","e","r","v","e","r","_","a","p","i","_","v","e","r","s","i","o","n">>
S_prefix_ == <<"p","r","e","f","i","x","_">>

NamedInputs ==
    {S_snake_case, S_kebab_case, S_camelCase, S_PascalCase, S_apiKey,
     S_with_spaces, S_user_id, S_tls_config, S_ocsp_enabled,
     S_server_api_version}
    \cup DOMAIN knownAcronyms
    \cup {S_prefix_ \o w : w \in DOMAIN knownAcronyms}

CaseInputs == StringsUpTo(MaxLen) \cup NamedInputs

(***************************************************************************)
(* Untyped values (Go's any).  A value is a record [k, v]: k names the     *)
(* dynamic type, v holds the content.                                      *)
(*   "nil"       the nil interface                    v = "nil"            *)
(*   "string", "int", "bool"   scalars                v = a literal        *)
(*   "map"       map[string]any                       v = key -> value     *)
(*   "bsonM"     bson.M                               v = key -> value     *)
(*   "bsonD"     bson.D                               v = <<key, value>>s  *)
(*   "struct"    a struct with bson-encodable fields  v = key -> value     *)
(*   "sliceAny"  []any          "bsonA"    bson.A                          *)
(*   "sliceD"    []bson.D       "sliceM"   []bson.M                        *)
(*   "sliceMap"  []map[string]any          "sliceString"  []string         *)
(*               (slices)                             v = <<value>>s       *)
(***************************************************************************)
Val(kind, content) == [k |-> kind, v |-> content]

Nil == Val("nil", "nil")

EmptyMap == [key \in {} |-> Nil]

\* the variables of a specification that does not use them keep these values
CaseIdle ==
    /\ input = <<>>
    /\ output = <<>>
    /\ pcCase = "idle"

NormIdle ==
    /\ nvalue = Nil
    /\ norig = Nil
    /\ nresult = Nil
    /\ nprev = Nil
    /\ pcNorm = "idle"

\* a return value: the nil error is the empty message
Ret(value, message) == [val |-> value, err |-> message]

UpdIdle ==
    /\ udata = Nil
    /\ ufilter = Nil
    /\ udatabase = <<>>
    /\ ucollection = <<>>
    /\ ucall = "none"
    /\ uret = Ret(Nil, "")
    /\ driverCalls = <<>>

\* a *Client: not yet constructed, nil, or &Client{client, defaultTimeout, ...};
\* driver is "nil" for a nil *mongo.Client and "conn" for one made by Connect
Unset ==
    [kind |-> "unset", driver |-> "nil", defaultTimeout |-> 0,
     retryWrites |-> FALSE, retryReads |-> FALSE]

NilClient ==
    [kind |-> "nil", driver |-> "nil", defaultTimeout |-> 0,
     retryWrites |-> FALSE, retryReads |-> FALSE]

\* the other arguments of a client method: limit (Find), optLimit
\* (findOptions["limit"], nil when the key is missing), field (Distinct),
\* count (len(docs), len(operations))
\* a key that the findOptions map does not hold (a held key may map to nil)
Absent == Val("absent", "absent")

\* optLimit, optSkip, optBatchSize, optSort and optProjection are
\* findOptions["limit"], ["skip"], ["batch_size"], ["sort"] and ["projection"];
\* for the three numbers a type assertion fails alike on nil and on no key
Args(limit, optLimit, field, count) ==
    [limit |-> limit, optLimit |-> optLimit, field |-> field, count |-> count,
     optSkip |-> Nil, optBatchSize |-> Nil, optSort |-> Absent,
     optProjection |-> Absent]

WithFindOptions(a, skip, batchSize, sort, projection) ==
    [a EXCEPT !.optSkip = skip, !.optBatchSize = batchSize, !.optSort = sort,
              !.optProjection = projection]

CliIdle ==
    /\ client = Unset
    /\ uargs = Args(0, Nil, <<>>, 0)
    /\ events = <<>>
    /\ driverConn = "none"

Goroutines == {1, 2}

\* a goroutine that has not called anything
GoIdle == [op |-> "none", pc |-> "idle", i |-> 0, val |-> Nil, result |-> Nil]

ConcIdle ==
    /\ gvalue = Nil
    /\ gorig = Nil
    /\ gstate = [g \in Goroutines |-> GoIdle]
    /\ gaccess = {}

MapKinds == {"map", "bsonM"}

SliceKinds == {"sliceAny", "bsonA", "sliceD", "sliceM", "sliceMap", "sliceString"}

ScalarKinds == {"string", "int", "bool"}

\* the entry of a bson.D: bson.E{Key, Value}
E(key, value) == <<key, value>>

(***************************************************************************)
(* normalizeKeys.  The call has two effects: the value it returns (out),   *)
(* and what the argument holds afterwards (arg), because the []any case    *)
(* assigns v[i] = normalizeKeys(val) into the caller's slice and returns   *)
(* that same slice.  `for key, val := range v` visits a map's keys in an   *)
(* unspecified order, so when two keys convert to the same name either     *)
(* may be written last: the operator yields every outcome.                 *)
(***************************************************************************)
\* The outcomes of the map cases.  each: the pairs <<key, o>>, o an outcome of
\* the recursive call made for the entry at key; name: the pairs
\* <<key, toPascalCase(key)>>.
mapOutcomes(kind, keys, each, name) ==
    LET all == {p[2] : p \in each}
        \* the recursive call made for each entry
        entries == {f \in [keys -> all] : \A key \in keys : <<key, f[key]>> \in each}
        outKeys == {p[2] : p \in name}
        \* the entry visited last among those written to one output key
        lastWritten == {w \in [outKeys -> keys] : \A n \in outKeys : <<w[n], n>> \in name}
    IN {[out |-> Val("map", [n \in outKeys |-> f[w[n]].out]),
         arg |-> Val(kind, [key \in keys |-> f[key].arg])] :
           f \in entries, w \in lastWritten}

\* The outcomes of the []any case: the slice is rewritten in place, and returned.
\* each: the pairs <<i, o>>, o an outcome of the recursive call made for v[i].
sliceOutcomes(idx, each) ==
    LET all == {p[2] : p \in each}
        elems == {f \in [idx -> all] : \A i \in idx : <<i, f[i]>> \in each}
    IN {[out |-> Val("sliceAny", [i \in idx |-> f[i].out]),
         arg |-> Val("sliceAny", [i \in idx |-> f[i].out])] : f \in elems}

RECURSIVE normalizeKeysOutcomes(_)
normalizeKeysOutcomes(value) ==
    IF value.k \in MapKinds
    THEN \* case map[string]any, case bson.M
         mapOutcomes(value.k, DOMAIN value.v,
                     UNION {{<<key, o>> : o \in normalizeKeysOutcomes(value.v[key])} :
                               key \in DOMAIN value.v},
                     {<<key, toPascalCase(key)>> : key \in DOMAIN value.v})
    ELSE IF value.k = "sliceAny"
    THEN \* case []any
         sliceOutcomes(DOMAIN value.v,
                       UNION {{<<i, o>> : o \in normalizeKeysOutcomes(value.v[i])} :
                                 i \in DOMAIN value.v})
    ELSE \* default
         {[out |-> value, arg |-> value]}

(***************************************************************************)
(* Option values handed to normalizeKeys: flat containers of at most       *)
(* MaxEntries entries, wrapped in single-entry containers MaxDepth times.  *)
(***************************************************************************)
MaxEntries == 2

MaxDepth == 2

K_max_pool == <<"m","a","x","_","p","o","o","l">>
K_max_dash_pool == <<"m","a","x","-","p","o","o","l">>
K_MaxPool == <<"M","a","x","P","o","o","l">>
K_Port == <<"P","o","r","t">>
K_ID == <<"I","D">>
K_server_api_options ==
    <<"s","e","r","v","e","r","_","a","p","i","_","o","p","t","i","o","n","s">>
K_ServerAPIOptions ==
    <<"S","e","r","v","e","r","A","P","I","O","p","t","i","o","n","s">>
K_ServerAPIVersion ==
    <<"S","e","r","v","e","r","A","P","I","V","e","r","s","i","o","n">>

OptKeys == {K_max_pool, K_max_dash_pool, K_MaxPool, K_Port, K_ID}

WrapKeys == {K_max_pool, K_Port}

OptLeaves == {Val("string", "1"), Val("int", "100")}

SeqsUpTo(S, n) == UNION {[1..m -> S] : m \in 0..n}

FlatMaps ==
    {Val("map", f) :
        f \in UNION {[ks -> OptLeaves] :
                        ks \in {x \in SUBSET OptKeys : Cardinality(x) <= MaxEntries}}}

FlatOptionValues ==
    OptLeaves \cup {Nil} \cup FlatMaps
    \cup {Val("sliceAny", s) : s \in SeqsUpTo(OptLeaves, MaxEntries)}

Wrapped(S) ==
    S \cup {Val("map", [key \in {wk} |-> x]) : wk \in WrapKeys, x \in S}
      \cup {Val("bsonM", [key \in {K_max_pool} |-> x]) : x \in S}
      \cup {Val("sliceAny", <<x>>) : x \in S}
      \cup {Val("bsonA", <<x>>) : x \in S}
      \cup {Val("bsonD", <<E(K_max_pool, x)>>) : x \in S}

RECURSIVE OptionLevel(_)
OptionLevel(d) == IF d = 0 THEN FlatOptionValues ELSE Wrapped(OptionLevel(d - 1))

\* the option object of the README's example
ReadmeOptions ==
    Val("map", [key \in {K_server_api_options} |->
                   Val("map", [k2 \in {S_server_api_version} |-> Val("string", "1")])])

OptionValues == OptionLevel(MaxDepth) \cup {ReadmeOptions}

(***************************************************************************)
(* Update classifier                                                       *)
(***************************************************************************)
True == Val("bool", "true")

False == Val("bool", "false")

Bool(b) == IF b THEN True ELSE False

\* for _, elem := range d { if strings.HasPrefix(elem.Key, "$") ... }
hasOperatorInKeysD(d) == \E i \in DOMAIN d : HasDollarPrefix(d[i][1])

\* for key := range m { if strings.HasPrefix(key, "$") ... }
hasOperatorInKeysM(m) == \E key \in DOMAIN m : HasDollarPrefix(key)

hasOperatorInKeysMap(m) == \E key \in DOMAIN m : HasDollarPrefix(key)

\* a mutant of updateDocumentHasOperator: the map[string]any case is missing
updateDocumentHasOperatorNoMap(doc) ==
    IF doc.k = "bsonD" THEN hasOperatorInKeysD(doc.v)
    ELSE IF doc.k = "bsonM" THEN hasOperatorInKeysM(doc.v)
    ELSE FALSE

updateDocumentHasOperator(doc) ==
    IF doc.k = "bsonD" THEN hasOperatorInKeysD(doc.v)
    ELSE IF doc.k = "bsonM" THEN hasOperatorInKeysM(doc.v)
    ELSE IF doc.k = "map" THEN hasOperatorInKeysMap(doc.v)
    ELSE FALSE

\* case []bson.D, []bson.M, []any, bson.A
isPipelineUpdate(doc) == doc.k \in {"sliceD", "sliceM", "sliceAny", "bsonA"}

(***************************************************************************)
(* The round trip of prepareUpdateDocument's default case through the      *)
(* driver's codec: bson.Marshal(doc), then bson.Unmarshal into a bson.M.   *)
(* Only a document (here a struct) can be marshalled at the top level; a   *)
(* scalar or a slice is refused.  Decoding into a bson.M gives embedded    *)
(* documents as bson.M and arrays as bson.A.                               *)
(***************************************************************************)
RECURSIVE bsonDecoded(_)
bsonDecoded(value) ==
    IF value.k \in {"map", "bsonM", "struct"}
    THEN Val("bsonM", [key \in DOMAIN value.v |-> bsonDecoded(value.v[key])])
    ELSE IF value.k = "bsonD"
    THEN Val("bsonM", [key \in {value.v[i][1] : i \in DOMAIN value.v} |->
            bsonDecoded(value.v[CHOOSE i \in DOMAIN value.v :
                                   /\ value.v[i][1] = key
                                   /\ \A j \in DOMAIN value.v :
                                         value.v[j][1] = key => j <= i][2])])
    ELSE IF value.k \in SliceKinds
    THEN Val("bsonA", [i \in DOMAIN value.v |-> bsonDecoded(value.v[i])])
    ELSE value

bsonMarshalFails(doc) == doc.k \notin {"struct", "map", "bsonM", "bsonD"}

K_set == <<"$","s","e","t">>

ErrUpdateNil == "update document cannot be nil"

ErrMarshalUpdate == "failed to marshal update document"

\* a mutant of prepareUpdateDocument: the nil check is missing, and nil is wrapped
prepareUpdateDocumentNoNilCheck(data) ==
    IF isPipelineUpdate(data) \/ updateDocumentHasOperator(data)
    THEN Ret(data, "")
    ELSE IF data.k = "bsonD"
    THEN Ret(Val("bsonD", <<E(K_set, data)>>), "")
    ELSE Ret(Val("bsonM", K_set :> data), "")

\* a mutant of prepareUpdateDocument: the pass-through of pipelines and
\* operator documents is missing
prepareUpdateDocumentAlwaysWrap(data) ==
    IF data = Nil
    THEN Ret(Nil, ErrUpdateNil)
    ELSE IF data.k = "bsonD"
    THEN Ret(Val("bsonD", <<E(K_set, data)>>), "")
    ELSE IF data.k \in {"bsonM", "map", "bsonA"}
    THEN Ret(Val("bsonM", K_set :> data), "")
    ELSE IF bsonMarshalFails(data)
    THEN Ret(Nil, ErrMarshalUpdate)
    ELSE Ret(Val("bsonM", K_set :> bsonDecoded(data)), "")

\* a mutant of prepareUpdateDocument: the bson.D case is missing, so that an
\* ordered document takes the default case
prepareUpdateDocumentNoD(data) ==
    IF data = Nil
    THEN Ret(Nil, ErrUpdateNil)
    ELSE IF isPipelineUpdate(data) \/ updateDocumentHasOperator(data)
    THEN Ret(data, "")
    ELSE IF data.k \in {"bsonM", "map", "bsonA"}
    THEN Ret(Val("bsonM", K_set :> data), "")
    ELSE IF bsonMarshalFails(data)
    THEN Ret(Nil, ErrMarshalUpdate)
    ELSE Ret(Val("bsonM", K_set :> bsonDecoded(data)), "")

prepareUpdateDocument(data) ==
    IF data = Nil
    THEN Ret(Nil, ErrUpdateNil)
    ELSE IF isPipelineUpdate(data) \/ updateDocumentHasOperator(data)
    THEN Ret(data, "")
    ELSE IF data.k = "bsonD"
    THEN Ret(Val("bsonD", <<E(K_set, data)>>), "")
    ELSE IF data.k \in {"bsonM", "map", "bsonA"}
    THEN Ret(Val("bsonM", K_set :> data), "")
    ELSE \* default
         IF bsonMarshalFails(data)
         THEN Ret(Nil, ErrMarshalUpdate)
         ELSE Ret(Val("bsonM", K_set :> bsonDecoded(data)), "")

(***************************************************************************)
(* Name validation                                                         *)
(***************************************************************************)
\* "\x00" is written "NUL"
invalidChars == {"/", "\\", ".", "\"", "$", " ", "NUL"}

ErrDatabaseEmpty == "database name cannot be empty"

ErrCollectionEmpty == "collection name cannot be empty"

ErrDatabaseChar == "database name contains invalid character"

\* strings.Contains(database, char), char one character
Contains(str, char) == \E i \in DOMAIN str : str[i] = char

\* a mutant of validateDatabaseAndCollection: the collection name is not looked at
validateDatabaseOnly(database, collection) ==
    IF database = <<>> THEN ErrDatabaseEmpty
    ELSE IF \E char \in invalidChars : Contains(database, char) THEN ErrDatabaseChar
    ELSE ""

validateDatabaseAndCollection(database, collection) ==
    IF database = <<>> THEN ErrDatabaseEmpty
    ELSE IF collection = <<>> THEN ErrCollectionEmpty
    ELSE IF \E char \in invalidChars : Contains(database, char) THEN ErrDatabaseChar
    ELSE ""

(***************************************************************************)
(* The inputs of the update path                                           *)
(***************************************************************************)
K_name == <<"n","a","m","e">>
K_a_dollar == <<"a","$">>
K_inc == <<"$","i","n","c">>

UpdateKeys == {K_set, K_name, K_a_dollar}

UpdateValues == {Val("string", "x"), Val("map", K_inc :> Val("int", "1"))}

KeySetsUpTo(keys, n) == {ks \in SUBSET keys : Cardinality(ks) <= n}

UpdateMaps(kind, keys) ==
    {Val(kind, f) : f \in UNION {[ks -> UpdateValues] : ks \in KeySetsUpTo(keys, MaxEntries)}}

UpdateDs ==
    {Val("bsonD", d) :
        d \in SeqsUpTo({E(key, value) : key \in UpdateKeys, value \in UpdateValues},
                       MaxEntries)}

StageM == Val("bsonM", K_set :> Val("bsonM", K_name :> Val("string", "x")))
StageMap == Val("map", K_set :> Val("map", K_name :> Val("string", "x")))
StageD == Val("bsonD", <<E(K_set, Val("bsonM", K_name :> Val("string", "x")))>>)

UpdateSlices ==
    {Val("sliceD", <<>>), Val("sliceD", <<StageD>>),
     Val("sliceM", <<>>), Val("sliceM", <<StageM>>),
     Val("sliceMap", <<>>), Val("sliceMap", <<StageMap>>),
     Val("sliceAny", <<>>), Val("sliceAny", <<StageMap>>), Val("sliceAny", <<StageM, StageD>>),
     Val("bsonA", <<>>), Val("bsonA", <<StageM>>),
     Val("sliceString", <<>>), Val("sliceString", <<Val("string", "x")>>)}

UpdateScalars == {Val("string", "x"), Val("int", "1"), Val("bool", "true")}

UpdatePayloads ==
    {Nil} \cup UpdateScalars \cup UpdateSlices \cup UpdateDs
    \cup UpdateMaps("bsonM", UpdateKeys) \cup UpdateMaps("map", UpdateKeys)
    \cup UpdateMaps("struct", {K_name})

Filters == {Nil, Val("map", K_name :> Val("string", "x"))}

DatabaseNames == {<<"d","b">>, <<>>, <<"d",".","b">>}

CollectionNames == {<<"c","o","l">>, <<>>}

(***************************************************************************)
(* The client's update helpers.  The driver is the environment: an         *)
(* operation issued to it is appended to driverCalls and it answers with   *)
(* an error or none.                                                       *)
(***************************************************************************)
errFilterNil == "filter cannot be nil"

DriverErrors == {"", "driver error"}

\* the document the driver's FindOneAndUpdate decodes into `out`
FoundDocument == Val("bsonM", K_name :> Val("string", "x"))

DriverCall(method, filter, update, upsert) ==
    [method |-> method, filter |-> filter, update |-> update, upsert |-> upsert]

defaultConnectionTimeout == 10

defaultOperationTimeout == 30

\* context.Background()
Background == [deadline |-> FALSE, seconds |-> 0]

\* context.WithTimeout(context.Background(), seconds)
WithTimeout(seconds) == [deadline |-> TRUE, seconds |-> seconds]

\* &Client{client: client, defaultTimeout: defaultOperationTimeout,
\*         retryWrites: true, retryReads: true}
NewClientValue ==
    [kind |-> "client", driver |-> "conn", defaultTimeout |-> defaultOperationTimeout,
     retryWrites |-> TRUE, retryReads |-> TRUE]

\* &Client{}: no driver client and every field zero
ZeroClient ==
    [kind |-> "client", driver |-> "nil", defaultTimeout |-> 0,
     retryWrites |-> FALSE, retryReads |-> FALSE]

\* one step of a call that matters outside it.  kind is "context" (a context
\* is made), "cancel" (its cancel function runs), "driver" (a call on the
\* driver client, a collection or a single result), "cursor" (a call on a
\* cursor) or "local" (a step inside the extension); ctx is the context
\* involved and ok tells whether the step succeeded
Ev(kind, op, ctx, ok) == [kind |-> kind, op |-> op, ctx |-> ctx, ok |-> ok]

\* c.getContext()
getContext(c) == WithTimeout(c.defaultTimeout)

\* a method on a nil *mongo.Client dereferences it: the goroutine panics
PanicNilDereference == "panic: nil pointer dereference"

\* a mutant of getCollection: the names are not validated
getCollectionNoValidation(c, database, collection) ==
    IF c.driver = "nil" THEN PanicNilDereference ELSE ""

\* c.getCollection(database, collection): the validation error, or the panic
\* of c.client.Database on a nil driver client, or "" for a collection
getCollection(c, database, collection) ==
    LET err == validateDatabaseAndCollection(database, collection)
    IN IF err # "" THEN err
       ELSE IF c.driver = "nil" THEN PanicNilDereference
       ELSE ""

\* ctx, cancel := c.getContext(); defer cancel(); one call on the collection
\* with ctx that answers ok or not; the deferred cancel at the return
DriverEvents(c, op, ok) ==
    <<Ev("context", "WithTimeout", getContext(c), TRUE),
      Ev("driver", op, getContext(c), ok),
      Ev("cancel", "cancel", getContext(c), TRUE)>>

\* the method returns without having reached the driver
ReturnEarly(method, ret) ==
    /\ ucall' = method
    /\ uret' = ret
    /\ UNCHANGED <<udata, ufilter, udatabase, ucollection, driverCalls>>
    /\ UNCHANGED cliVars

\* a mutant of ReturnDriver: a failed operation is issued a second time
ReturnDriverRetry(method, call, ret) ==
    /\ ucall' = method
    /\ uret' = ret
    /\ driverCalls' = IF ret.err = "" THEN Append(driverCalls, call)
                      ELSE driverCalls \o <<call, call>>
    /\ events' = IF ret.err = "" THEN events \o DriverEvents(client, call.method, TRUE)
                 ELSE events \o <<Ev("context", "WithTimeout", getContext(client), TRUE),
                                  Ev("driver", call.method, getContext(client), FALSE),
                                  Ev("driver", call.method, getContext(client), FALSE),
                                  Ev("cancel", "cancel", getContext(client), TRUE)>>
    /\ UNCHANGED <<udata, ufilter, udatabase, ucollection>>
    /\ UNCHANGED <<client, uargs, driverConn>>

\* the method issues one operation to the driver and returns its answer
ReturnDriver(method, call, ret) ==
    /\ ucall' = method
    /\ uret' = ret
    /\ driverCalls' = Append(driverCalls, call)
    /\ events' = events \o DriverEvents(client, call.method, ret.err = "")
    /\ UNCHANGED <<udata, ufilter, udatabase, ucollection>>
    /\ UNCHANGED <<client, uargs, driverConn>>

\* a mutant of UpdateOne: the names are validated before the filter is tested
UpdateOneNamesFirst ==
    /\ ucall = "none"
    /\ client.kind = "client"
    /\ \E driverErr \in DriverErrors :
          LET nameErr == getCollection(client, udatabase, ucollection)
              update == prepareUpdateDocument(udata)
          IN IF nameErr # "" THEN ReturnEarly("UpdateOne", Ret(Nil, nameErr))
             ELSE IF ufilter = Nil THEN ReturnEarly("UpdateOne", Ret(Nil, errFilterNil))
             ELSE IF update.err # "" THEN ReturnEarly("UpdateOne", Ret(Nil, update.err))
             ELSE ReturnDriver("UpdateOne",
                               DriverCall("UpdateOne", ufilter, update.val, FALSE),
                               Ret(Nil, driverErr))
    /\ UNCHANGED <<caseVars, normVars, concVars>>

UpdateOne ==
    /\ ucall = "none"
    /\ client.kind = "client"
    /\ \E driverErr \in DriverErrors :
          LET nameErr == getCollection(client, udatabase, ucollection)
              update == prepareUpdateDocument(udata)
          IN IF ufilter = Nil THEN ReturnEarly("UpdateOne", Ret(Nil, errFilterNil))
             ELSE IF nameErr # "" THEN ReturnEarly("UpdateOne", Ret(Nil, nameErr))
             ELSE IF update.err # "" THEN ReturnEarly("UpdateOne", Ret(Nil, update.err))
             ELSE ReturnDriver("UpdateOne",
                               DriverCall("UpdateOne", ufilter, update.val, FALSE),
                               Ret(Nil, driverErr))
    /\ UNCHANGED <<caseVars, normVars, concVars>>

UpdateMany ==
    /\ ucall = "none"
    /\ client.kind = "client"
    /\ \E driverErr \in DriverErrors :
          LET nameErr == getCollection(client, udatabase, ucollection)
              update == prepareUpdateDocument(udata)
          IN IF ufilter = Nil THEN ReturnEarly("UpdateMany", Ret(Nil, errFilterNil))
             ELSE IF nameErr # "" THEN ReturnEarly("UpdateMany", Ret(Nil, nameErr))
             ELSE IF update.err # "" THEN ReturnEarly("UpdateMany", Ret(Nil, update.err))
             ELSE ReturnDriver("UpdateMany",
                               DriverCall("UpdateMany", ufilter, update.val, FALSE),
                               Ret(Nil, driverErr))
    /\ UNCHANGED <<caseVars, normVars, concVars>>

\* options.Update().SetUpsert(true), then col.UpdateOne
Upsert ==
    /\ ucall = "none"
    /\ client.kind = "client"
    /\ \E driverErr \in DriverErrors :
          LET nameErr == getCollection(client, udatabase, ucollection)
              updateDoc == prepareUpdateDocument(udata)
          IN IF ufilter = Nil THEN ReturnEarly("Upsert", Ret(Nil, errFilterNil))
             ELSE IF nameErr # "" THEN ReturnEarly("Upsert", Ret(Nil, nameErr))
             ELSE IF updateDoc.err # "" THEN ReturnEarly("Upsert", Ret(Nil, updateDoc.err))
             ELSE ReturnDriver("Upsert",
                               DriverCall("UpdateOne", ufilter, updateDoc.val, TRUE),
                               Ret(Nil, driverErr))
    /\ UNCHANGED <<caseVars, normVars, concVars>>

\* the update argument goes to col.FindOneAndUpdate as it was given
FindOneAndUpdate ==
    /\ ucall = "none"
    /\ client.kind = "client"
    /\ \E driverErr \in DriverErrors :
          LET nameErr == getCollection(client, udatabase, ucollection)
          IN IF ufilter = Nil THEN ReturnEarly("FindOneAndUpdate", Ret(Nil, errFilterNil))
             ELSE IF nameErr # "" THEN ReturnEarly("FindOneAndUpdate", Ret(Nil, nameErr))
             ELSE ReturnDriver("FindOneAndUpdate",
                               DriverCall("FindOneAndUpdate", ufilter, udata, FALSE),
                               IF driverErr # "" THEN Ret(Nil, driverErr)
                               ELSE Ret(FoundDocument, ""))
    /\ UNCHANGED <<caseVars, normVars, concVars>>

\* direct calls of the three helpers, as the benchmarks make them
CallPrepareUpdateDocument ==
    /\ ucall = "none"
    /\ ReturnEarly("prepareUpdateDocument", prepareUpdateDocument(udata))
    /\ UNCHANGED <<caseVars, normVars, concVars>>

CallIsPipelineUpdate ==
    /\ ucall = "none"
    /\ ReturnEarly("isPipelineUpdate", Ret(Bool(isPipelineUpdate(udata)), ""))
    /\ UNCHANGED <<caseVars, normVars, concVars>>

CallUpdateDocumentHasOperator ==
    /\ ucall = "none"
    /\ ReturnEarly("updateDocumentHasOperator",
                   Ret(Bool(updateDocumentHasOperator(udata)), ""))
    /\ UNCHANGED <<caseVars, normVars, concVars>>

InitUpdate ==
    /\ udata \in UpdatePayloads
    /\ ufilter \in Filters
    /\ udatabase \in DatabaseNames
    /\ ucollection \in CollectionNames
    /\ ucall = "none"
    /\ uret = Ret(Nil, "")
    /\ driverCalls = <<>>
    /\ client = NewClientValue
    /\ uargs = Args(0, Nil, <<>>, 0)
    /\ events = <<>>
    /\ driverConn = "connected"
    /\ CaseIdle
    /\ NormIdle
    /\ ConcIdle

NextUpdate ==
    \/ CallPrepareUpdateDocument
    \/ CallIsPipelineUpdate
    \/ CallUpdateDocumentHasOperator
    \/ UpdateOne
    \/ UpdateMany
    \/ Upsert
    \/ FindOneAndUpdate

SpecUpdate == InitUpdate /\ [][NextUpdate]_vars

(***************************************************************************)
(* Specification of two successive calls of normalizeKeys on one value     *)
(***************************************************************************)
InitNorm ==
    /\ nvalue \in OptionValues
    /\ norig = nvalue
    /\ nresult = Nil
    /\ nprev = Nil
    /\ pcNorm = "idle"
    /\ CaseIdle
    /\ UpdIdle
    /\ CliIdle
    /\ ConcIdle

CallNormalizeKeys ==
    /\ pcNorm \in {"idle", "once"}
    /\ \E o \in normalizeKeysOutcomes(nvalue) :
          /\ nresult' = o.out
          /\ nvalue' = o.arg
    /\ nprev' = nresult
    /\ pcNorm' = IF pcNorm = "idle" THEN "once" ELSE "twice"
    /\ UNCHANGED norig
    /\ UNCHANGED caseVars
    /\ UNCHANGED updVars
    /\ UNCHANGED <<cliVars, concVars>>

NextNorm == CallNormalizeKeys

SpecNorm == InitNorm /\ [][NextNorm]_vars

(***************************************************************************)
(* Specification of one call of toPascalCase                               *)
(***************************************************************************)
InitCase ==
    /\ input \in CaseInputs
    /\ output = <<>>
    /\ pcCase = "idle"
    /\ NormIdle
    /\ UpdIdle
    /\ CliIdle
    /\ ConcIdle

CallToPascalCase ==
    /\ pcCase = "idle"
    /\ output' = toPascalCase(input)
    /\ pcCase' = "done"
    /\ UNCHANGED input
    /\ UNCHANGED normVars
    /\ UNCHANGED updVars
    /\ UNCHANGED <<cliVars, concVars>>

NextCase == CallToPascalCase

SpecCase == InitCase /\ [][NextCase]_vars

(***************************************************************************)
(* The other methods of the client.  Each is one step: its argument check, *)
(* getCollection, getContext, the call on the driver with the deferred     *)
(* cursor close and cancel, and the return.                                *)
(***************************************************************************)
errDocumentNil == "document cannot be nil"

errPipelineNil == "pipeline cannot be nil"

errDocsEmpty == "documents array cannot be empty"

errLimitNeg == "limit cannot be negative"

ErrFieldEmpty == "field name cannot be empty"

ErrOperationsEmpty == "operations array cannot be empty"

\* what a successful driver call gives back
FoundDocuments == Val("sliceM", <<FoundDocument>>)

DistinctValues == Val("sliceAny", <<Val("string", "x")>>)

Count(n) == Val("int64", n)

\* (InsertedCount, ModifiedCount)
BulkCounts(inserted, modified) == Val("counts", <<inserted, modified>>)

\* options.Find() with what was set on it; Nil for a limit that was not set
FindOptions(limit, sort) ==
    [limit |-> limit, sort |-> sort, skip |-> Nil, batchSize |-> Nil,
     projection |-> Nil]

\* v.(kind) with the test > 0: the value to set, or Nil when nothing is set
AssertPositive(v, kind) == IF v.k = kind /\ v.v > 0 THEN v ELSE Nil

\* value, ok := findOptions[key]; ok: the value to set (nil for a key held
\* with nil), or Nil when the key is not held
IfPresent(v) == IF v = Absent THEN Nil ELSE v

\* opts := options.Find() and the five conditional setters of FindWithOptions
findOptionsFromMap(a) ==
    [limit |-> AssertPositive(a.optLimit, "int64"),
     skip |-> AssertPositive(a.optSkip, "int64"),
     sort |-> IfPresent(a.optSort),
     batchSize |-> AssertPositive(a.optBatchSize, "int32"),
     projection |-> IfPresent(a.optProjection)]

\* a col.Find call: a driver call that carries find options
FindCall(filter, opts) ==
    [method |-> "Find", filter |-> filter, update |-> Nil, upsert |-> FALSE,
     opts |-> opts]

\* a mutant of CursorEvents: the cursor is not closed when decoding fails
CursorEventsNoCloseOnError(c, op, opened, decoded) ==
    IF ~opened
    THEN DriverEvents(c, op, FALSE)
    ELSE <<Ev("context", "WithTimeout", getContext(c), TRUE),
           Ev("driver", op, getContext(c), TRUE),
           Ev("cursor", "All", getContext(c), decoded)>>
         \o (IF decoded THEN <<Ev("cursor", "Close", getContext(c), TRUE)>> ELSE <<>>)
         \o <<Ev("cancel", "cancel", getContext(c), TRUE)>>

\* getContext, defer cancel, the call that gives a cursor; when it gave one:
\* defer cur.Close(ctx), cur.All(ctx, &results), and at the return the
\* deferred calls in reverse order
CursorEvents(c, op, opened, decoded) ==
    IF ~opened
    THEN DriverEvents(c, op, FALSE)
    ELSE <<Ev("context", "WithTimeout", getContext(c), TRUE),
           Ev("driver", op, getContext(c), TRUE),
           Ev("cursor", "All", getContext(c), decoded),
           Ev("cursor", "Close", getContext(c), TRUE),
           Ev("cancel", "cancel", getContext(c), TRUE)>>

\* the method asks the driver for a cursor, decodes it and returns
ReturnCursor(method, call, openErr, decodeErr) ==
    /\ ucall' = method
    /\ uret' = IF openErr # "" THEN Ret(Nil, openErr)
               ELSE IF decodeErr # "" THEN Ret(Nil, decodeErr)
               ELSE Ret(FoundDocuments, "")
    /\ driverCalls' = Append(driverCalls, call)
    /\ events' = events \o CursorEvents(client, call.method, openErr = "", decodeErr = "")
    /\ UNCHANGED <<udata, ufilter, udatabase, ucollection>>
    /\ UNCHANGED <<client, uargs, driverConn>>

DecodeErrors == {"", "decode error"}

Insert ==
    /\ ucall = "none"
    /\ client.kind = "client"
    /\ \E driverErr \in DriverErrors :
          LET nameErr == getCollection(client, udatabase, ucollection)
          IN IF udata = Nil THEN ReturnEarly("Insert", Ret(Nil, errDocumentNil))
             ELSE IF nameErr # "" THEN ReturnEarly("Insert", Ret(Nil, nameErr))
             ELSE ReturnDriver("Insert",
                               DriverCall("InsertOne", Nil, udata, FALSE),
                               Ret(Nil, driverErr))
    /\ UNCHANGED <<caseVars, normVars, concVars>>

\* docs is a slice of uargs.count documents
InsertMany ==
    /\ ucall = "none"
    /\ client.kind = "client"
    /\ \E driverErr \in DriverErrors :
          LET nameErr == getCollection(client, udatabase, ucollection)
              docs == Val("sliceAny", [i \in 1..uargs.count |-> udata])
          IN IF uargs.count = 0 THEN ReturnEarly("InsertMany", Ret(Nil, errDocsEmpty))
             ELSE IF nameErr # "" THEN ReturnEarly("InsertMany", Ret(Nil, nameErr))
             ELSE ReturnDriver("InsertMany",
                               DriverCall("InsertMany", Nil, docs, FALSE),
                               Ret(Nil, driverErr))
    /\ UNCHANGED <<caseVars, normVars, concVars>>

\* options.Find().SetSort(sort).SetLimit(limit); the sort argument is nil
Find ==
    /\ ucall = "none"
    /\ client.kind = "client"
    /\ \E driverErr \in DriverErrors, decodeErr \in DecodeErrors :
          LET nameErr == getCollection(client, udatabase, ucollection)
              opts == FindOptions(Count(uargs.limit), Nil)
          IN IF uargs.limit < 0 THEN ReturnEarly("Find", Ret(Nil, errLimitNeg))
             ELSE IF nameErr # "" THEN ReturnEarly("Find", Ret(Nil, nameErr))
             ELSE ReturnCursor("Find", FindCall(ufilter, opts), driverErr, decodeErr)
    /\ UNCHANGED <<caseVars, normVars, concVars>>

\* if limit, ok := findOptions["limit"].(int64); ok && limit > 0 { SetLimit },
\* and likewise skip (int64), sort, batch_size (int32) and projection
FindWithOptions ==
    /\ ucall = "none"
    /\ client.kind = "client"
    /\ \E driverErr \in DriverErrors, decodeErr \in DecodeErrors :
          LET nameErr == getCollection(client, udatabase, ucollection)
              opts == findOptionsFromMap(uargs)
          IN IF nameErr # "" THEN ReturnEarly("FindWithOptions", Ret(Nil, nameErr))
             ELSE ReturnCursor("FindWithOptions", FindCall(ufilter, opts),
                               driverErr, decodeErr)
    /\ UNCHANGED <<caseVars, normVars, concVars>>

\* col.Find(ctx, bson.D{})
FindAll ==
    /\ ucall = "none"
    /\ client.kind = "client"
    /\ \E driverErr \in DriverErrors, decodeErr \in DecodeErrors :
          LET nameErr == getCollection(client, udatabase, ucollection)
          IN IF nameErr # "" THEN ReturnEarly("FindAll", Ret(Nil, nameErr))
             ELSE ReturnCursor("FindAll",
                               FindCall(Val("bsonD", <<>>), FindOptions(Nil, Nil)),
                               driverErr, decodeErr)
    /\ UNCHANGED <<caseVars, normVars, concVars>>

\* a mutant of Aggregate: the nil check of the pipeline is missing
AggregateNoNilCheck ==
    /\ ucall = "none"
    /\ client.kind = "client"
    /\ \E driverErr \in DriverErrors, decodeErr \in DecodeErrors :
          LET nameErr == getCollection(client, udatabase, ucollection)
          IN IF nameErr # "" THEN ReturnEarly("Aggregate", Ret(Nil, nameErr))
             ELSE ReturnCursor("Aggregate",
                               DriverCall("Aggregate", Nil, udata, FALSE),
                               driverErr, decodeErr)
    /\ UNCHANGED <<caseVars, normVars, concVars>>

Aggregate ==
    /\ ucall = "none"
    /\ client.kind = "client"
    /\ \E driverErr \in DriverErrors, decodeErr \in DecodeErrors :
          LET nameErr == getCollection(client, udatabase, ucollection)
          IN IF udata = Nil THEN ReturnEarly("Aggregate", Ret(Nil, errPipelineNil))
             ELSE IF nameErr # "" THEN ReturnEarly("Aggregate", Ret(Nil, nameErr))
             ELSE ReturnCursor("Aggregate",
                               DriverCall("Aggregate", Nil, udata, FALSE),
                               driverErr, decodeErr)
    /\ UNCHANGED <<caseVars, normVars, concVars>>

\* col.FindOne(ctx, filter).Decode(&result)
FindOne ==
    /\ ucall = "none"
    /\ client.kind = "client"
    /\ \E driverErr \in DriverErrors :
          LET nameErr == getCollection(client, udatabase, ucollection)
          IN IF nameErr # "" THEN ReturnEarly("FindOne", Ret(Nil, nameErr))
             ELSE ReturnDriver("FindOne",
                               DriverCall("FindOne", ufilter, Nil, FALSE),
                               IF driverErr # "" THEN Ret(Nil, driverErr)
                               ELSE Ret(FoundDocument, ""))
    /\ UNCHANGED <<caseVars, normVars, concVars>>

DeleteOne ==
    /\ ucall = "none"
    /\ client.kind = "client"
    /\ \E driverErr \in DriverErrors :
          LET nameErr == getCollection(client, udatabase, ucollection)
          IN IF nameErr # "" THEN ReturnEarly("DeleteOne", Ret(Nil, nameErr))
             ELSE ReturnDriver("DeleteOne",
                               DriverCall("DeleteOne", ufilter, Nil, FALSE),
                               Ret(Nil, driverErr))
    /\ UNCHANGED <<caseVars, normVars, concVars>>

DeleteMany ==
    /\ ucall = "none"
    /\ client.kind = "client"
    /\ \E driverErr \in DriverErrors :
          LET nameErr == getCollection(client, udatabase, ucollection)
          IN IF nameErr # "" THEN ReturnEarly("DeleteMany", Ret(Nil, nameErr))
             ELSE ReturnDriver("DeleteMany",
                               DriverCall("DeleteMany", ufilter, Nil, FALSE),
                               Ret(Nil, driverErr))
    /\ UNCHANGED <<caseVars, normVars, concVars>>

Distinct ==
    /\ ucall = "none"
    /\ client.kind = "client"
    /\ \E driverErr \in DriverErrors :
          LET nameErr == getCollection(client, udatabase, ucollection)
          IN IF uargs.field = <<>> THEN ReturnEarly("Distinct", Ret(Nil, ErrFieldEmpty))
             ELSE IF nameErr # "" THEN ReturnEarly("Distinct", Ret(Nil, nameErr))
             ELSE ReturnDriver("Distinct",
                               DriverCall("Distinct", ufilter, Nil, FALSE),
                               IF driverErr # "" THEN Ret(Nil, driverErr)
                               ELSE Ret(DistinctValues, ""))
    /\ UNCHANGED <<caseVars, normVars, concVars>>

DropCollection ==
    /\ ucall = "none"
    /\ client.kind = "client"
    /\ \E driverErr \in DriverErrors :
          LET nameErr == getCollection(client, udatabase, ucollection)
          IN IF nameErr # "" THEN ReturnEarly("DropCollection", Ret(Nil, nameErr))
             ELSE ReturnDriver("DropCollection",
                               DriverCall("Drop", Nil, Nil, FALSE),
                               Ret(Nil, driverErr))
    /\ UNCHANGED <<caseVars, normVars, concVars>>

CountDocuments ==
    /\ ucall = "none"
    /\ client.kind = "client"
    /\ \E driverErr \in DriverErrors :
          LET nameErr == getCollection(client, udatabase, ucollection)
          IN IF nameErr # "" THEN ReturnEarly("CountDocuments", Ret(Count(0), nameErr))
             ELSE ReturnDriver("CountDocuments",
                               DriverCall("CountDocuments", ufilter, Nil, FALSE),
                               IF driverErr # "" THEN Ret(Count(0), driverErr)
                               ELSE Ret(Count(1), ""))
    /\ UNCHANGED <<caseVars, normVars, concVars>>

\* operations is a slice of uargs.count write models
BulkWrite ==
    /\ ucall = "none"
    /\ client.kind = "client"
    /\ \E driverErr \in DriverErrors :
          LET nameErr == getCollection(client, udatabase, ucollection)
              operations == Val("sliceAny", [i \in 1..uargs.count |-> udata])
          IN IF uargs.count = 0
             THEN ReturnEarly("BulkWrite", Ret(BulkCounts(0, 0), ErrOperationsEmpty))
             ELSE IF nameErr # "" THEN ReturnEarly("BulkWrite", Ret(BulkCounts(0, 0), nameErr))
             ELSE ReturnDriver("BulkWrite",
                               DriverCall("BulkWrite", Nil, operations, FALSE),
                               IF driverErr # "" THEN Ret(BulkCounts(0, 0), driverErr)
                               ELSE Ret(BulkCounts(uargs.count, 0), ""))
    /\ UNCHANGED <<caseVars, normVars, concVars>>

(***************************************************************************)
(* Construction and disconnection                                          *)
(***************************************************************************)
ErrOptionsNil == "client options cannot be nil"

ErrOptionsType == "unsupported client options type"

ErrMarshalOptions == "failed to marshal client options"

ErrUnmarshalOptions == "failed to unmarshal client options"

\* what the codec may answer for a normalized options map
CodecErrors == {"", ErrMarshalOptions, ErrUnmarshalOptions}

\* *options.ClientOptions: the URI applied, where the options came from
\* ("default", "pointer", "map") and the normalized map laid over them
ClientOptions(uri, source, overlay) ==
    [uri |-> uri, source |-> source, overlay |-> overlay]

NoOptions == ClientOptions(<<>>, "none", Nil)

\* the caller's *options.ClientOptions after v.ApplyURI(connURI)
URIApplied == Val("clientOptions", "set, URI applied")

\* a mutant of prepareClientOptions: a typed-nil *ClientOptions is taken as
\* no options
prepareClientOptionsNilPointerAsDefault(connURI, opts) ==
    IF opts.k = "nil" \/ (opts.k = "clientOptions" /\ opts.v = "nil")
    THEN {[err |-> "", options |-> ClientOptions(connURI, "default", Nil), arg |-> opts]}
    ELSE IF opts.k = "clientOptions"
    THEN {[err |-> "", options |-> ClientOptions(connURI, "pointer", Nil),
           arg |-> URIApplied]}
    ELSE IF opts.k \in {"map", "bsonM"}
    THEN {[err |-> codecErr,
           options |-> IF codecErr # "" THEN NoOptions
                       ELSE ClientOptions(connURI, "map", o.out),
           arg |-> Val(opts.k, o.arg.v)] :
             o \in normalizeKeysOutcomes(Val("map", opts.v)), codecErr \in CodecErrors}
    ELSE {[err |-> ErrOptionsType, options |-> NoOptions, arg |-> opts]}

\* prepareClientOptions and clientOptionsFromMap: the outcomes
\* [err, options, arg], arg the caller's opts value as the call leaves it
prepareClientOptions(connURI, opts) ==
    IF opts.k = "nil"
    THEN {[err |-> "", options |-> ClientOptions(connURI, "default", Nil), arg |-> opts]}
    ELSE IF opts.k = "clientOptions"
    THEN IF opts.v = "nil"
         THEN {[err |-> ErrOptionsNil, options |-> NoOptions, arg |-> opts]}
         ELSE \* v.ApplyURI(connURI); return v, nil
              {[err |-> "", options |-> ClientOptions(connURI, "pointer", Nil),
                arg |-> URIApplied]}
    ELSE IF opts.k \in {"map", "bsonM"}
    THEN \* normalizeKeys(raw) runs before the codec
         {[err |-> codecErr,
           options |-> IF codecErr # "" THEN NoOptions
                       ELSE ClientOptions(connURI, "map", o.out),
           arg |-> Val(opts.k, o.arg.v)] :
             o \in normalizeKeysOutcomes(Val("map", opts.v)), codecErr \in CodecErrors}
    ELSE {[err |-> ErrOptionsType, options |-> NoOptions, arg |-> opts]}

\* what was applied last to the options handed to mongo.Connect, and so
\* decides a setting given both in the URI and in the options argument:
\* clientOptionsFromMap unmarshals the map over options.Client().ApplyURI(connURI),
\* the *ClientOptions case calls v.ApplyURI(connURI) on the caller's options
LastApplied(options) == IF options.source = "map" THEN "options" ELSE "uri"

URI == <<"m","o","n","g","o","d","b",":","/","/","h">>

ConnURIs == {<<>>, URI}

\* the opts argument: nil, an options map of either type, a *ClientOptions
\* that is set or nil, and a value of another type
K_retry_writes == <<"r","e","t","r","y","_","w","r","i","t","e","s">>

K_retry_reads == <<"r","e","t","r","y","_","r","e","a","d","s">>

NestedOptions ==
    Val("map", K_Port :> Val("sliceAny", <<Val("map", K_max_pool :> Val("int", "100"))>>))

ClientOptionValues ==
    {Nil,
     Val("map", K_max_pool :> Val("int", "100")),
     Val("bsonM", K_max_pool :> Val("int", "100")),
     Val("map", K_retry_writes :> False),
     Val("map", K_retry_reads :> False),
     NestedOptions,
     Val("clientOptions", "set"),
     Val("clientOptions", "nil"),
     Val("string", "1")}

\* mongo.Connect(ctx, clientOptions) and the calls on the driver client
ClientCall(method, options) ==
    [method |-> method, filter |-> Nil, update |-> Nil, upsert |-> FALSE,
     opts |-> options]

ConnectionCtx == WithTimeout(defaultConnectionTimeout)

\* the call of the constructor with its arguments
CallEvent(connURI, opts) ==
    [kind |-> "call", op |-> "NewClientWithOptions", ctx |-> Background, ok |-> TRUE,
     connURI |-> connURI, opts |-> opts]

\* a mutant of NewClientEvents: a failed ping is not followed by Disconnect
NewClientEventsNoCleanup(prepared, connected, pinged) ==
    IF ~prepared
    THEN <<Ev("local", "prepareClientOptions", Background, FALSE)>>
    ELSE <<Ev("local", "prepareClientOptions", Background, TRUE),
           Ev("context", "WithTimeout", ConnectionCtx, TRUE),
           Ev("driver", "Connect", ConnectionCtx, connected)>>
         \o (IF ~connected THEN <<>>
             ELSE <<Ev("driver", "Ping", ConnectionCtx, pinged)>>)
         \o <<Ev("cancel", "cancel", ConnectionCtx, TRUE)>>

\* the steps of NewClientWithOptions after the URI check
NewClientEvents(prepared, connected, pinged) ==
    IF ~prepared
    THEN <<Ev("local", "prepareClientOptions", Background, FALSE)>>
    ELSE <<Ev("local", "prepareClientOptions", Background, TRUE),
           Ev("context", "WithTimeout", ConnectionCtx, TRUE),
           Ev("driver", "Connect", ConnectionCtx, connected)>>
         \o (IF ~connected THEN <<>>
             ELSE <<Ev("driver", "Ping", ConnectionCtx, pinged)>>
                  \o (IF pinged THEN <<>>
                      ELSE <<Ev("driver", "Disconnect", Background, TRUE)>>))
         \o <<Ev("cancel", "cancel", ConnectionCtx, TRUE)>>

NewClientCalls(options, prepared, connected, pinged) ==
    IF ~prepared THEN <<>>
    ELSE <<ClientCall("Connect", options)>>
         \o (IF ~connected THEN <<>>
             ELSE <<ClientCall("Ping", NoOptions)>>
                  \o (IF pinged THEN <<>> ELSE <<ClientCall("Disconnect", NoOptions)>>))

\* a mutant of NewClientResult: the client is returned without the ping
NewClientResultNoPing(prepared, connected, pinged) ==
    IF prepared /\ connected THEN NewClientValue ELSE NilClient

\* what NewClientWithOptions returns after the URI check
NewClientResult(prepared, connected, pinged) ==
    IF prepared /\ connected /\ pinged THEN NewClientValue ELSE NilClient

\* NewClient(connURI) is NewClientWithOptions(connURI, nil)
NewClientWithOptions ==
    /\ client = Unset
    /\ ucall = "none"
    /\ \E connURI \in ConnURIs, opts \in ClientOptionValues,
          connected \in BOOLEAN, pinged \in BOOLEAN :
          IF connURI = <<>>
          THEN /\ client' = NilClient
               /\ events' = Append(events, CallEvent(connURI, opts))
               /\ norig' = opts
               /\ nvalue' = opts
               /\ UNCHANGED <<driverCalls, driverConn>>
          ELSE \E p \in prepareClientOptions(connURI, opts) :
                  /\ norig' = opts
                  /\ nvalue' = p.arg
                  /\ events' = Append(events, CallEvent(connURI, opts))
                        \o NewClientEvents(p.err = "", connected, pinged)
                  /\ driverCalls' = driverCalls
                        \o NewClientCalls(p.options, p.err = "", connected, pinged)
                  /\ client' = NewClientResult(p.err = "", connected, pinged)
                  /\ driverConn' = IF p.err # "" \/ ~connected THEN "none"
                                   ELSE IF pinged THEN "connected"
                                   ELSE "disconnected"
    /\ UNCHANGED <<udata, ufilter, udatabase, ucollection, ucall, uret, uargs>>
    /\ UNCHANGED <<nresult, nprev, pcNorm>>
    /\ UNCHANGED <<caseVars, concVars>>

\* client := &Client{}, as the validation tests make it
NewZeroClient ==
    /\ client = Unset
    /\ ucall = "none"
    /\ client' = ZeroClient
    /\ UNCHANGED <<uargs, events, driverConn>>
    /\ UNCHANGED <<caseVars, normVars, updVars, concVars>>

\* c.client.Disconnect(ctx) under a context of 10 seconds
Disconnect ==
    /\ ucall = "none"
    /\ client.kind = "client"
    /\ ucall' = "Disconnect"
    /\ IF client.driver = "nil"
       THEN /\ uret' = Ret(Nil, PanicNilDereference)
            /\ events' = events \o <<Ev("context", "WithTimeout", ConnectionCtx, TRUE),
                                      Ev("cancel", "cancel", ConnectionCtx, TRUE)>>
            /\ UNCHANGED <<driverCalls, driverConn>>
       ELSE \E driverErr \in DriverErrors :
               /\ uret' = Ret(Nil, driverErr)
               /\ events' = events \o <<Ev("context", "WithTimeout", ConnectionCtx, TRUE),
                                         Ev("driver", "Disconnect", ConnectionCtx,
                                            driverErr = ""),
                                         Ev("cancel", "cancel", ConnectionCtx, TRUE)>>
               /\ driverCalls' = Append(driverCalls, ClientCall("Disconnect", NoOptions))
               /\ driverConn' = "disconnected"
    /\ UNCHANGED <<udata, ufilter, udatabase, ucollection, client, uargs>>
    /\ UNCHANGED <<caseVars, normVars, concVars>>

(***************************************************************************)
(* Specification of a client: it is constructed, then one method is called *)
(***************************************************************************)
PlainDocument == Val("map", K_name :> Val("string", "x"))

ClientPayloads == {Nil, PlainDocument, StageMap}

\* valid arguments, and each argument invalid in turn
OptLimits == {Nil, Val("int64", 5), Val("int64", -1), Val("float64", 5)}

SortDocument == Val("bsonM", K_name :> Val("int64", -1))

ProjectionDocument == Val("bsonM", K_name :> Val("int64", 1))

\* the options of the README (integers of a script arrive as int64), the
\* options of TestAllFeatures with a batch size as the code expects it, and
\* integers of the other width
FindOptionArgs ==
    {WithFindOptions(Args(5, Val("int64", 100), <<"f">>, 1),
                     Val("int64", 10), Val("int64", 50),
                     SortDocument, ProjectionDocument),
     WithFindOptions(Args(5, Val("int64", 2), <<"f">>, 1),
                     Val("int64", 1), Val("int32", 50),
                     SortDocument, ProjectionDocument),
     WithFindOptions(Args(5, Val("int32", 2), <<"f">>, 1),
                     Val("int32", 1), Nil, Nil, Absent)}

ClientArgs ==
    {Args(5, limit, <<"f">>, 1) : limit \in OptLimits}
    \cup {Args(-1, Nil, <<"f">>, 1), Args(5, Nil, <<>>, 1), Args(5, Nil, <<"f">>, 0)}
    \cup FindOptionArgs

InitClient ==
    /\ udata \in ClientPayloads
    /\ ufilter \in Filters
    /\ udatabase \in DatabaseNames
    /\ ucollection \in CollectionNames
    /\ uargs \in ClientArgs
    /\ ucall = "none"
    /\ uret = Ret(Nil, "")
    /\ driverCalls = <<>>
    /\ client = Unset
    /\ events = <<>>
    /\ driverConn = "none"
    /\ CaseIdle
    /\ NormIdle
    /\ ConcIdle

NextClient ==
    \/ NewClientWithOptions
    \/ NewZeroClient
    \/ Insert
    \/ InsertMany
    \/ Upsert
    \/ Find
    \/ FindWithOptions
    \/ FindOne
    \/ FindAll
    \/ Aggregate
    \/ UpdateOne
    \/ UpdateMany
    \/ DeleteOne
    \/ DeleteMany
    \/ Distinct
    \/ DropCollection
    \/ CountDocuments
    \/ FindOneAndUpdate
    \/ BulkWrite
    \/ Disconnect

SpecClient == InitClient /\ [][NextClient]_vars

(***************************************************************************)
(* Specification of one call of validateDatabaseAndCollection              *)
(***************************************************************************)
MaxNameLen == 2

\* a letter, the seven characters refused in a database name, and two
\* characters that are not refused
DatabaseAlphabet == {"d", "/", "\\", ".", "\"", "$", " ", "NUL", "_", "-"}

CollectionAlphabet == {"c", "$", ".", " "}

ValidateDatabases == SeqsUpTo(DatabaseAlphabet, MaxNameLen)

ValidateCollections == SeqsUpTo(CollectionAlphabet, MaxNameLen)

InitValidate ==
    /\ udatabase \in ValidateDatabases
    /\ ucollection \in ValidateCollections
    /\ udata = Nil
    /\ ufilter = Nil
    /\ ucall = "none"
    /\ uret = Ret(Nil, "")
    /\ driverCalls = <<>>
    /\ CaseIdle
    /\ NormIdle
    /\ CliIdle
    /\ ConcIdle

CallValidateDatabaseAndCollection ==
    /\ ucall = "none"
    /\ ucall' = "validateDatabaseAndCollection"
    /\ uret' = Ret(Nil, validateDatabaseAndCollection(udatabase, ucollection))
    /\ UNCHANGED <<udata, ufilter, udatabase, ucollection, driverCalls>>
    /\ UNCHANGED <<caseVars, normVars, cliVars, concVars>>

NextValidate == CallValidateDatabaseAndCollection

SpecValidate == InitValidate /\ [][NextValidate]_vars

(***************************************************************************)
(* Specification of two goroutines that call the helpers on one shared     *)
(* value without synchronization.  A step is one access to shared memory   *)
(* or a run of accesses that only read.  The locations are the acronym     *)
(* table, the entries of the shared map and the elements of the shared     *)
(* []any, which normalizeKeys reads (`for i, val := range v`) and writes   *)
(* (`v[i] = normalizeKeys(val)`) one at a time.                            *)
(***************************************************************************)
LocAcronyms == <<"knownAcronyms", 0>>

LocEntries == <<"entries", 0>>

LocElem(i) == <<"elem", i>>

Access(g, loc, write) == [g |-> g, loc |-> loc, write |-> write]

\* the shared values: a scalar, a flat map, a []any, a map holding a []any
ConcElems == {Val("int", "100"), Val("map", K_max_pool :> Val("int", "100")),
              Val("map", K_Port :> Val("int", "100"))}

ConcSlices == {Val("sliceAny", seq) : seq \in SeqsUpTo(ConcElems, MaxEntries)}

ConcInputs ==
    {Val("int", "100"), Val("map", K_max_pool :> Val("int", "100")),
     Val("map", K_set :> Val("int", "100"))}
    \cup ConcSlices \cup {Val("map", K_Port :> slice) : slice \in ConcSlices}

\* the value holds a []any, at the top or under its one key
HasSlice(value) ==
    \/ value.k = "sliceAny"
    \/ value.k = "map" /\ \E key \in DOMAIN value.v : value.v[key].k = "sliceAny"

SliceKey(value) == CHOOSE key \in DOMAIN value.v : value.v[key].k = "sliceAny"

SliceOf(value) ==
    IF value.k = "sliceAny" THEN value.v ELSE value.v[SliceKey(value)].v

WithElem(value, i, elem) ==
    IF value.k = "sliceAny"
    THEN Val("sliceAny", [value.v EXCEPT ![i] = elem])
    ELSE Val("map", [value.v EXCEPT ![SliceKey(value)] =
                        Val("sliceAny", [value.v[SliceKey(value)].v EXCEPT ![i] = elem])])

\* what normalizeKeys returns for a value that holds a []any: the slice
\* itself, or the new map whose entry is the slice itself
SliceResult(value) ==
    IF value.k = "sliceAny" THEN value
    ELSE Val("map", toPascalCase(SliceKey(value)) :> value.v[SliceKey(value)])

\* the reads of a call that walks the keys of a map and converts them
KeyReads(g, value) ==
    IF value.k \in MapKinds
    THEN {Access(g, LocEntries, FALSE)}
         \cup (IF DOMAIN value.v = {} THEN {} ELSE {Access(g, LocAcronyms, FALSE)})
    ELSE {}

ReadOnlyHelpers ==
    {"toPascalCase", "isPipelineUpdate", "updateDocumentHasOperator",
     "prepareUpdateDocument"}

\* the result of a helper that only reads, and what it reads; toPascalCase is
\* called on the key "max_pool"
ReadOnlyResult(op, value) ==
    IF op = "toPascalCase" THEN Val("name", toPascalCase(K_max_pool))
    ELSE IF op = "isPipelineUpdate" THEN Bool(isPipelineUpdate(value))
    ELSE IF op = "updateDocumentHasOperator" THEN Bool(updateDocumentHasOperator(value))
    ELSE prepareUpdateDocument(value).val

ReadOnlyReads(g, op, value) ==
    IF op = "toPascalCase" THEN {Access(g, LocAcronyms, FALSE)}
    ELSE IF op = "isPipelineUpdate" THEN {}
    ELSE IF value.k \in MapKinds THEN {Access(g, LocEntries, FALSE)}
    ELSE {}

\* goroutine g calls one of the four helpers that only read
GoCallReadOnly(g) ==
    /\ gstate[g].pc = "idle"
    /\ \E op \in ReadOnlyHelpers :
          /\ gstate' = [gstate EXCEPT ![g] =
                 [op |-> op, pc |-> "done", i |-> 0, val |-> Nil,
                  result |-> ReadOnlyResult(op, gvalue)]]
          /\ gaccess' = gaccess \cup ReadOnlyReads(g, op, gvalue)
    /\ UNCHANGED <<gvalue, gorig>>
    /\ UNCHANGED <<caseVars, normVars, updVars, cliVars>>

\* goroutine g calls normalizeKeys: without a []any in the value the call
\* only reads and returns; with one it enters the loop over the elements
GoNormalizeKeys(g) ==
    /\ gstate[g].pc = "idle"
    /\ IF HasSlice(gvalue)
       THEN gstate' = [gstate EXCEPT ![g] =
                [op |-> "normalizeKeys", pc |-> "loop", i |-> 1, val |-> Nil,
                 result |-> Nil]]
       ELSE \E o \in normalizeKeysOutcomes(gvalue) :
               gstate' = [gstate EXCEPT ![g] =
                   [op |-> "normalizeKeys", pc |-> "done", i |-> 0, val |-> Nil,
                    result |-> o.out]]
    /\ gaccess' = gaccess \cup KeyReads(g, gvalue)
    /\ UNCHANGED <<gvalue, gorig>>
    /\ UNCHANGED <<caseVars, normVars, updVars, cliVars>>

\* for i, val := range v: the element is read
GoReadElem(g) ==
    /\ gstate[g].pc = "loop"
    /\ gstate[g].i <= Len(SliceOf(gvalue))
    /\ gstate' = [gstate EXCEPT ![g].pc = "store",
                                 ![g].val = SliceOf(gvalue)[gstate[g].i]]
    /\ gaccess' = gaccess \cup {Access(g, LocElem(gstate[g].i), FALSE)}
    /\ UNCHANGED <<gvalue, gorig>>
    /\ UNCHANGED <<caseVars, normVars, updVars, cliVars>>

\* v[i] = normalizeKeys(val): the element is written
GoWriteElem(g) ==
    /\ gstate[g].pc = "store"
    /\ \E o \in normalizeKeysOutcomes(gstate[g].val) :
          gvalue' = WithElem(gvalue, gstate[g].i, o.out)
    /\ gstate' = [gstate EXCEPT ![g].pc = "loop", ![g].i = gstate[g].i + 1,
                                 ![g].val = Nil]
    /\ gaccess' = gaccess \cup {Access(g, LocElem(gstate[g].i), TRUE)}
                          \cup (KeyReads(g, gstate[g].val) \ {Access(g, LocEntries, FALSE)})
    /\ UNCHANGED gorig
    /\ UNCHANGED <<caseVars, normVars, updVars, cliVars>>

\* return v: the loop is over and the slice itself is returned
GoReturn(g) ==
    /\ gstate[g].pc = "loop"
    /\ gstate[g].i > Len(SliceOf(gvalue))
    /\ gstate' = [gstate EXCEPT ![g].pc = "done", ![g].result = SliceResult(gvalue)]
    /\ UNCHANGED <<gvalue, gorig, gaccess>>
    /\ UNCHANGED <<caseVars, normVars, updVars, cliVars>>

InitConc ==
    /\ gvalue \in ConcInputs
    /\ gorig = gvalue
    /\ gstate = [g \in Goroutines |-> GoIdle]
    /\ gaccess = {}
    /\ CaseIdle
    /\ NormIdle
    /\ UpdIdle
    /\ CliIdle

NextConc ==
    \E g \in Goroutines :
       \/ GoCallReadOnly(g)
       \/ GoNormalizeKeys(g)
       \/ GoReadElem(g)
       \/ GoWriteElem(g)
       \/ GoReturn(g)

SpecConc == InitConc /\ [][NextConc]_vars

(***************************************************************************)
(* Properties of prepareUpdateDocument and the update classifier           *)
(* (checked under SpecUpdate)                                              *)
(***************************************************************************)
\* the top-level keys of a document, read off its content
TopLevelKeys(value) ==
    IF value.k \in {"bsonM", "map"} THEN DOMAIN value.v
    ELSE IF value.k = "bsonD" THEN {value.v[i][1] : i \in DOMAIN value.v}
    ELSE {}

BeginsWithDollar(key) == key # <<>> /\ Head(key) = "$"

IsDocument(value) == value.k \in {"bsonM", "map", "bsonD"}

\* a plain field-set document
IsPlainDocument(value) ==
    IsDocument(value) /\ \A key \in TopLevelKeys(value) : ~BeginsWithDollar(key)

\* an operator document
IsOperatorDocument(value) ==
    IsDocument(value) /\ \E key \in TopLevelKeys(value) : BeginsWithDollar(key)

\* wrapped is inner under the single key "$set", ordered when inner is ordered
IsSetWrapperOf(wrapped, inner) ==
    IF inner.k = "bsonD"
    THEN wrapped.k = "bsonD" /\ Len(wrapped.v) = 1
         /\ wrapped.v[1][1] = K_set /\ wrapped.v[1][2] = inner
    ELSE wrapped.k \in {"bsonM", "map"} /\ DOMAIN wrapped.v = {K_set}
         /\ wrapped.v[K_set] = inner

\* C1: for every plain field-set document (bson.M, map[string]any or bson.D
\* with no top-level key beginning with '$') prepareUpdateDocument returns no
\* error and a document whose single entry is "$set" -> the input, ordered
\* for an ordered input and a map for a map input.
C1_PlainDocumentWrappedInSet ==
    (ucall = "prepareUpdateDocument" /\ IsPlainDocument(udata))
        => /\ uret.err = ""
           /\ IsSetWrapperOf(uret.val, udata)

C1_Witness ==
    /\ ucall = "prepareUpdateDocument"
    /\ udata.k = "bsonD"
    /\ Len(udata.v) = 2
    /\ IsPlainDocument(udata)
    /\ uret.val.k = "bsonD"
    /\ uret.val.v[1][2] = udata

\* C2: whenever isPipelineUpdate(input) or updateDocumentHasOperator(input)
\* holds, prepareUpdateDocument returns the input itself and no error.
C2_PipelineAndOperatorPassThrough ==
    (ucall = "prepareUpdateDocument"
        /\ (isPipelineUpdate(udata) \/ updateDocumentHasOperator(udata)))
        => uret = Ret(udata, "")

C2_Witness ==
    /\ ucall = "prepareUpdateDocument"
    /\ udata.k = "map"
    /\ K_set \in DOMAIN udata.v
    /\ uret.val = udata

UpdateHelpers == {"UpdateOne", "UpdateMany", "Upsert", "FindOneAndUpdate"}

\* C3: each of UpdateOne, UpdateMany, Upsert and FindOneAndUpdate hands the
\* driver a plain object wrapped in "$set" and an operator document unchanged.
C3_UpdateHelpersWrapPlainObjects ==
    (ucall \in UpdateHelpers /\ driverCalls # <<>>)
        => /\ IsPlainDocument(udata) => IsSetWrapperOf(driverCalls[1].update, udata)
           /\ IsOperatorDocument(udata) => driverCalls[1].update = udata

\* C4: prepareUpdateDocument(nil) returns (nil, "update document cannot be
\* nil"); it returns either a non-nil payload and no error or a nil payload and
\* an error; UpdateOne, UpdateMany and Upsert with a non-nil filter, valid names
\* and a nil update return that error and issue nothing to the driver.
C4_NilUpdateRejected ==
    /\ ucall = "prepareUpdateDocument"
          => /\ udata = Nil => uret = Ret(Nil, "update document cannot be nil")
             /\ \/ uret.val # Nil /\ uret.err = ""
                \/ uret.val = Nil /\ uret.err # ""
    /\ (ucall \in {"UpdateOne", "UpdateMany", "Upsert"}
           /\ ufilter # Nil /\ udatabase = <<"d","b">> /\ ucollection = <<"c","o","l">>
           /\ udata = Nil)
          => /\ uret.err = "update document cannot be nil"
             /\ driverCalls = <<>>

C4_Witness ==
    /\ ucall = "Upsert"
    /\ ufilter # Nil
    /\ udatabase = <<"d","b">>
    /\ ucollection = <<"c","o","l">>
    /\ udata = Nil
    /\ uret.err = "update document cannot be nil"

\* C5: isPipelineUpdate(value) is true if and only if the value is a slice,
\* whatever its element type, and false for every map, bson.D and scalar.
C5_PipelineIffSlice ==
    ucall = "isPipelineUpdate" => (uret.val = True <=> udata.k \in SliceKinds)

\* C6: updateDocumentHasOperator(value) is true if and only if value is a
\* bson.M, map[string]any or bson.D with a top-level key beginning with '$';
\* nested keys do not count, and slices and scalars give false.
C6_HasOperatorIffTopLevelDollarKey ==
    ucall = "updateDocumentHasOperator"
        => /\ uret.val \in {True, False}
           /\ uret.val = True <=> IsOperatorDocument(udata)

\* a plain document holding a nested operator document
C6_Witness ==
    /\ ucall = "updateDocumentHasOperator"
    /\ udata.k = "map"
    /\ DOMAIN udata.v = {K_name}
    /\ udata.v[K_name].k = "map"
    /\ K_inc \in DOMAIN udata.v[K_name].v
    /\ uret.val = False

(***************************************************************************)
(* Properties of toPascalCase (checked under SpecCase)                     *)
(***************************************************************************)
RefIsSeparator(c) == c = "_" \/ c = "-" \/ c = " "

\* position i starts a segment of s
RefStartsSegment(s, i) ==
    ~RefIsSeparator(s[i]) /\ (i = 1 \/ RefIsSeparator(s[i - 1]))

\* the start of the segment that holds the non-separator at position i
RefSegmentStart(s, i) ==
    CHOOSE j \in 1..i : /\ RefStartsSegment(s, j)
                        /\ \A k \in j..i : ~RefIsSeparator(s[k])

\* the end of the segment that starts at position i
RefSegmentEnd(s, i) ==
    CHOOSE j \in i..Len(s) : /\ j = Len(s) \/ RefIsSeparator(s[j + 1])
                             /\ \A k \in i..j : ~RefIsSeparator(s[k])

RefLower(s) == [i \in DOMAIN s |-> IF IsUpper(s[i]) THEN LowerOf[s[i]] ELSE s[i]]

RefUpperChar(c) == IF IsLower(c) THEN UpperOf[c] ELSE c

\* what position i of s contributes to the result
RefPiece(s, i) ==
    IF RefIsSeparator(s[i]) THEN <<>>
    ELSE LET start == RefSegmentStart(s, i)
             word == RefLower(SubSeq(s, start, RefSegmentEnd(s, start)))
         IN IF word \in DOMAIN knownAcronyms
            THEN IF i = start THEN knownAcronyms[word] ELSE <<>>
            ELSE IF i = start THEN <<RefUpperChar(word[1])>>
                 ELSE <<word[i - start + 1]>>

RECURSIVE RefPascalFrom(_, _)
RefPascalFrom(s, i) ==
    IF i > Len(s) THEN <<>> ELSE RefPiece(s, i) \o RefPascalFrom(s, i + 1)

\* the reference conversion of the claim
RefPascalCase(s) == RefPascalFrom(s, 1)

EndsWith(s, suffix) ==
    Len(s) >= Len(suffix) /\ SubSeq(s, Len(s) - Len(suffix) + 1, Len(s)) = suffix

\* C7: toPascalCase agrees with the reference on every input; an acronym word
\* gives its table entry, "prefix_" + word ends with it, and "apiKey" /
\* "camelCase" give "Apikey" / "Camelcase".
C7_PascalCaseMatchesReference ==
    pcCase = "done"
        => /\ output = RefPascalCase(input)
           /\ input \in DOMAIN knownAcronyms => output = knownAcronyms[input]
           /\ \A w \in DOMAIN knownAcronyms :
                 input = S_prefix_ \o w => EndsWith(output, knownAcronyms[w])
           /\ input = S_apiKey => output = <<"A","p","i","k","e","y">>
           /\ input = S_camelCase => output = <<"C","a","m","e","l","c","a","s","e">>

C7_Witness ==
    /\ pcCase = "done"
    /\ input = S_server_api_version
    /\ output = K_ServerAPIVersion

(***************************************************************************)
(* Properties of normalizeKeys (checked under SpecNorm)                    *)
(***************************************************************************)
\* out is `in` with every map key at every depth converted: a map has the
\* converted keys, each holding the converted value of an original entry; a
\* sequence and an ordered key-value list keep length and order.
RECURSIVE ClaimedNormalized(_, _)
ClaimedNormalized(in, out) ==
    IF in.k \in MapKinds
    THEN /\ out.k \in MapKinds
         /\ DOMAIN out.v = {toPascalCase(key) : key \in DOMAIN in.v}
         /\ \A name \in DOMAIN out.v :
               \E key \in DOMAIN in.v :
                  /\ toPascalCase(key) = name
                  /\ ClaimedNormalized(in.v[key], out.v[name])
    ELSE IF in.k \in SliceKinds
    THEN /\ out.k = in.k
         /\ Len(out.v) = Len(in.v)
         /\ \A i \in DOMAIN in.v : ClaimedNormalized(in.v[i], out.v[i])
    ELSE IF in.k = "bsonD"
    THEN /\ out.k = "bsonD"
         /\ Len(out.v) = Len(in.v)
         /\ \A i \in DOMAIN in.v : ClaimedNormalized(in.v[i][2], out.v[i][2])
    ELSE out = in

\* C8: for every option value built from maps, ordered key-value lists,
\* sequences and scalars, normalizeKeys returns a value of the same shape in
\* which every map key at every depth is toPascalCase of the original key.
C8_EveryKeyAtEveryDepthConverted ==
    pcNorm = "once" => ClaimedNormalized(norig, nresult)

IsLetter(c) == IsUpper(c) \/ IsLower(c)

\* a PascalCase name that holds no acronym word
IsPascalCaseName(key) ==
    /\ key # <<>>
    /\ IsUpper(key[1])
    /\ \A i \in DOMAIN key : IsLetter(key[i])
    /\ key \notin {knownAcronyms[w] : w \in DOMAIN knownAcronyms}

IsFlatMap(value) ==
    value.k = "map" /\ \A key \in DOMAIN value.v : value.v[key].k \in ScalarKinds

\* C9 as claimed: normalizeKeys(n) = n for every map n whose keys are all
\* PascalCase names, of one word or several, holding no acronym word.
C9_IdempotentOnPascalCaseKeys ==
    (pcNorm = "once" /\ IsFlatMap(norig)
        /\ \A key \in DOMAIN norig.v : IsPascalCaseName(key))
        => nresult = norig

\* a single capitalised word that is no acronym word, or an acronym as the
\* table writes it
IsFixedKey(key) ==
    \/ /\ key # <<>>
       /\ IsUpper(key[1])
       /\ \A i \in 2..Len(key) : IsLower(key[i])
       /\ RefLower(key) \notin DOMAIN knownAcronyms
    \/ key \in {knownAcronyms[w] : w \in DOMAIN knownAcronyms}

\* a value built from map[string]any, []any and scalars whose keys are all fixed
RECURSIVE IsFixedTree(_)
IsFixedTree(value) ==
    IF value.k = "map"
    THEN \A key \in DOMAIN value.v : IsFixedKey(key) /\ IsFixedTree(value.v[key])
    ELSE IF value.k = "sliceAny"
    THEN \A i \in DOMAIN value.v : IsFixedTree(value.v[i])
    ELSE value.k \in ScalarKinds \cup {"nil"}

\* C9 as amended: normalizeKeys(n) = n, and n is left as it was, for every
\* map[string]any n built from map[string]any, []any and scalars in which
\* every key is a single capitalised word or an acronym of the table.
C9_IdempotentOnSingleWordKeys ==
    (pcNorm = "once" /\ norig.k = "map" /\ IsFixedTree(norig))
        => nresult = norig /\ nvalue = norig

C9_Witness ==
    /\ pcNorm = "once"
    /\ norig.k = "map"
    /\ DOMAIN norig.v = {K_Port}
    /\ norig.v[K_Port].k = "map"
    /\ DOMAIN norig.v[K_Port].v = {K_Port, K_ID}
    /\ nresult = norig

\* C10: the helpers are pure: the argument is the same after the call as
\* before, and two successive calls on the argument return equal results.
C10_ArgumentUnchangedAndResultsEqual ==
    /\ pcNorm # "idle" => nvalue = norig
    /\ pcNorm = "twice" => nresult = nprev

(***************************************************************************)
(* Properties of concurrent calls of the helpers (checked under SpecConc)  *)
(***************************************************************************)
\* two accesses by different goroutines to one location, one of them a write
DataRace ==
    \E a, b \in gaccess : a.g # b.g /\ a.loc = b.loc /\ (a.write \/ b.write)

\* what the call of goroutine g returned, as its caller sees it now: a result
\* that is the shared slice shows what the slice holds now
ResultNow(g) ==
    IF gstate[g].op = "normalizeKeys" /\ HasSlice(gvalue)
    THEN SliceResult(gvalue)
    ELSE gstate[g].result

\* what the call returns when it runs alone on the original value
ResultsAlone(op) ==
    IF op = "normalizeKeys" THEN {o.out : o \in normalizeKeysOutcomes(gorig)}
    ELSE {ReadOnlyResult(op, gorig)}

\* C11: in every interleaving of concurrent calls of the helpers on one
\* value no call writes a location that another call reads or writes, and
\* each call returns the result it would return when run alone.
C11_ConcurrentCallsDoNotInterfere ==
    /\ ~DataRace
    /\ (\A g \in Goroutines : gstate[g].pc = "done")
          => \A g \in Goroutines : ResultNow(g) \in ResultsAlone(gstate[g].op)

(***************************************************************************)
(* Properties of validateDatabaseAndCollection (checked under SpecValidate)*)
(***************************************************************************)
RefusedInDatabase == {"/", "\\", ".", "\"", "$", " ", "NUL"}

\* C12: validateDatabaseAndCollection returns an error if and only if the
\* database name is empty, the collection name is empty, or the database name
\* holds one of '/', '\', '.', '"', '$', space, NUL; the characters of a
\* non-empty collection name do not matter; with both names empty the error
\* is the one about the database.
C12_ValidationErrorIff ==
    ucall = "validateDatabaseAndCollection"
        => /\ uret.err # "" <=>
                 \/ udatabase = <<>>
                 \/ ucollection = <<>>
                 \/ \E i \in DOMAIN udatabase : udatabase[i] \in RefusedInDatabase
           /\ (udatabase = <<>> /\ ucollection = <<>>)
                 => uret.err = "database name cannot be empty"

\* a collection name made of refused characters is accepted
C12_Witness ==
    /\ ucall = "validateDatabaseAndCollection"
    /\ udatabase = <<"d", "_">>
    /\ ucollection = <<"$", ".">>
    /\ uret.err = ""

(***************************************************************************)
(* Properties of the client (checked under SpecClient)                     *)
(***************************************************************************)
ClientOperations ==
    {"Insert", "InsertMany", "Upsert", "Find", "FindWithOptions", "FindOne",
     "FindAll", "Aggregate", "UpdateOne", "UpdateMany", "DeleteOne", "DeleteMany",
     "Distinct", "DropCollection", "CountDocuments", "FindOneAndUpdate", "BulkWrite"}

ConnectionMethods == {"Connect", "Ping", "Disconnect"}

\* the calls on a collection or cursor made so far
OperationCalls == {i \in DOMAIN driverCalls : driverCalls[i].method \notin ConnectionMethods}

OperationEvents ==
    {i \in DOMAIN events :
        /\ events[i].kind \in {"driver", "cursor"}
        /\ events[i].op \notin ConnectionMethods}

\* the method returned without any call on the driver
DriverUntouched == OperationCalls = {} /\ OperationEvents = {}

ValidNames == udatabase = <<"d","b">> /\ ucollection = <<"c","o","l">>

\* C13: each of the seventeen client operations, called with names that fail
\* validateDatabaseAndCollection, returns an error and makes no call on the
\* driver client.
C13_InvalidNamesRejectedBeforeDriver ==
    (ucall \in ClientOperations
        /\ validateDatabaseAndCollection(udatabase, ucollection) # "")
        => /\ uret.err # ""
           /\ uret.err # PanicNilDereference
           /\ DriverUntouched

C13_Witness ==
    /\ ucall = "DropCollection"
    /\ client = NewClientValue
    /\ udatabase = <<"d",".","b">>
    /\ ucollection = <<"c","o","l">>
    /\ uret.err = "database name contains invalid character"

\* C14: the argument checks return their fixed error without touching the
\* driver client, also on a Client whose driver client is nil: Insert(nil
\* document) errDocumentNil, InsertMany(empty) errDocsEmpty, Find(negative
\* limit) errLimitNeg, UpdateOne / UpdateMany / Upsert / FindOneAndUpdate(nil
\* filter) errFilterNil, Aggregate(nil pipeline) errPipelineNil,
\* Distinct(empty field) and BulkWrite(empty operations) an error.
C14_ArgumentChecksReturnSentinels ==
    /\ (ucall = "Insert" /\ udata = Nil) => uret.err = "document cannot be nil"
    /\ (ucall = "InsertMany" /\ uargs.count = 0)
          => uret.err = "documents array cannot be empty"
    /\ (ucall = "Find" /\ uargs.limit < 0) => uret.err = "limit cannot be negative"
    /\ (ucall \in {"UpdateOne", "UpdateMany", "Upsert", "FindOneAndUpdate"}
           /\ ufilter = Nil) => uret.err = "filter cannot be nil"
    /\ (ucall = "Aggregate" /\ udata = Nil) => uret.err = "pipeline cannot be nil"
    /\ (ucall = "Distinct" /\ uargs.field = <<>>)
          => uret.err \notin {"", PanicNilDereference}
    /\ (ucall = "BulkWrite" /\ uargs.count = 0)
          => uret.err \notin {"", PanicNilDereference}
    /\ \/ ucall = "Insert" /\ udata = Nil
       \/ ucall = "InsertMany" /\ uargs.count = 0
       \/ ucall = "Find" /\ uargs.limit < 0
       \/ ucall \in {"UpdateOne", "UpdateMany", "Upsert", "FindOneAndUpdate"}
             /\ ufilter = Nil
       \/ ucall = "Aggregate" /\ udata = Nil
       \/ ucall = "Distinct" /\ uargs.field = <<>>
       \/ ucall = "BulkWrite" /\ uargs.count = 0
       => DriverUntouched

\* a nil pipeline on &Client{} with valid names
C14_Witness ==
    /\ ucall = "Aggregate"
    /\ client = ZeroClient
    /\ ValidNames
    /\ udata = Nil
    /\ uret.err = "pipeline cannot be nil"

\* C15: DeleteOne and DeleteMany, like UpdateOne and UpdateMany, return
\* errFilterNil for a nil filter and issue nothing to the driver.
C15_NilFilterRejectedByDeleteAndUpdate ==
    (ucall \in {"DeleteOne", "DeleteMany", "UpdateOne", "UpdateMany"}
        /\ ufilter = Nil /\ ValidNames /\ client.driver = "conn")
        => /\ uret.err = "filter cannot be nil"
           /\ DriverUntouched

\* C16: Find with a negative limit argument and FindWithOptions with a
\* negative options["limit"] return errLimitNeg and no results, and send no
\* query to the driver.
C16_NegativeLimitRejected ==
    (ValidNames /\ client.driver = "conn"
        /\ \/ ucall = "Find" /\ uargs.limit < 0
           \/ ucall = "FindWithOptions"
                 /\ uargs.optLimit.k = "int64" /\ uargs.optLimit.v < 0)
        => /\ uret = Ret(Nil, "limit cannot be negative")
           /\ DriverUntouched

\* position i of the trace is the step op of the constructor, and it succeeded
StepOk(i, op) ==
    /\ events[i].kind \in {"local", "driver"}
    /\ events[i].op = op
    /\ events[i].ok

StepFailed(i, op) ==
    /\ events[i].kind \in {"local", "driver"}
    /\ events[i].op = op
    /\ ~events[i].ok

ConstructorSteps == {"prepareClientOptions", "Connect", "Ping"}

ConstructorCalled == client # Unset /\ client # ZeroClient

\* C17: the constructor returns a Client only after option preparation, the
\* connect and the ping succeeded, in this order; with an empty URI it
\* returns nil without any of the three; when one of them fails it returns nil.
C17_ClientOnlyAfterPrepareConnectPing ==
    ConstructorCalled
        => /\ client.kind = "client"
                 => \E i, j, k \in DOMAIN events :
                       /\ i < j /\ j < k
                       /\ StepOk(i, "prepareClientOptions")
                       /\ StepOk(j, "Connect")
                       /\ StepOk(k, "Ping")
           /\ events[1].connURI = <<>>
                 => /\ client = NilClient
                    /\ Len(events) = 1
                    /\ driverCalls = <<>>
           /\ (\E i \in DOMAIN events, op \in ConstructorSteps : StepFailed(i, op))
                 => client = NilClient

C17_Witness ==
    /\ client = NewClientValue
    /\ ucall = "none"
    /\ events[1].opts.k = "bsonM"
    /\ driverConn = "connected"

\* C18: when the constructor returns nil after the connect succeeded,
\* Disconnect was called on the driver client after the failed ping, and no
\* driver client stays connected without a Client that owns it.
C18_FailedPingDisconnects ==
    /\ (client = NilClient /\ \E j \in DOMAIN events : StepOk(j, "Connect"))
          => \E k, d \in DOMAIN events :
                /\ k < d
                /\ StepFailed(k, "Ping")
                /\ events[d].kind = "driver" /\ events[d].op = "Disconnect"
    /\ driverConn = "connected" => client = NewClientValue

C18_Witness ==
    /\ client = NilClient
    /\ driverConn = "disconnected"
    /\ \E j \in DOMAIN events : StepOk(j, "Connect")

\* C19: every call on the driver and on a cursor is given a context with a
\* timeout: 10 seconds for connect, ping and both disconnects, 30 seconds for
\* the operations.
C19_EveryDriverCallHasTimeout ==
    \A i \in DOMAIN events :
       events[i].kind \in {"driver", "cursor"}
          => /\ events[i].ctx.deadline
             /\ events[i].ctx.seconds =
                   IF events[i].op \in ConnectionMethods THEN 10 ELSE 30

\* the cursor closes of the trace
Closes == {i \in DOMAIN events : events[i].kind = "cursor" /\ events[i].op = "Close"}

\* C20: in Find, FindWithOptions, FindAll and Aggregate, once the driver has
\* returned a cursor it is closed exactly once before the return, also when
\* decoding fails, and before the context is cancelled; every context made
\* is cancelled before the method returns.
C20_CursorClosedAndContextCancelled ==
    /\ \A i \in DOMAIN events :
          (events[i].kind = "driver" /\ events[i].op \in {"Find", "Aggregate"}
              /\ events[i].ok)
             => /\ Cardinality(Closes) = 1
                /\ \A c \in Closes :
                      /\ c > i
                      /\ events[c].ctx = events[i].ctx
                      /\ \E x \in DOMAIN events :
                            x > c /\ events[x].kind = "cancel"
                      /\ \A x \in i..c : events[x].kind # "cancel"
    /\ \A i \in DOMAIN events :
          events[i].kind = "context"
             => \E x \in DOMAIN events :
                   /\ x > i
                   /\ events[x].kind = "cancel"
                   /\ events[x].ctx = events[i].ctx
                   /\ \A y \in (i + 1)..(x - 1) : events[y].kind \notin {"context", "cancel"}
    /\ events # <<>> /\ events[Len(events)].kind \notin {"call", "local"}
          => events[Len(events)].kind = "cancel"

\* the decode fails after the cursor was opened
C20_Witness ==
    /\ ucall = "Aggregate"
    /\ uret.err = "decode error"
    /\ Closes # {}

IntegerKinds == {"int", "int32", "int64"}

\* a valid number for limit, skip or batch_size, in any integer width
PositiveInteger(v) == v.k \in IntegerKinds /\ v.v > 0

\* the find options of the query that FindWithOptions sent
SentFindOptions == driverCalls[Len(driverCalls)].opts

FindWithOptionsSent ==
    /\ ucall = "FindWithOptions"
    /\ driverCalls # <<>>
    /\ driverCalls[Len(driverCalls)].method = "Find"

\* the number set for one option is the number supplied
NumberApplied(supplied, set) ==
    /\ PositiveInteger(supplied) => set # Nil /\ set.v = supplied.v
    /\ supplied = Nil => set = Nil

ValueApplied(supplied, set) == set = IF supplied = Absent THEN Nil ELSE supplied

\* C21: in the query FindWithOptions sends, a positive integer limit, skip or
\* batch_size of any integer width and a present sort or projection are set
\* on the find options, and an option the map does not hold is left unset.
C21_EveryFindOptionApplied ==
    FindWithOptionsSent
        => /\ NumberApplied(uargs.optLimit, SentFindOptions.limit)
           /\ NumberApplied(uargs.optSkip, SentFindOptions.skip)
           /\ NumberApplied(uargs.optBatchSize, SentFindOptions.batchSize)
           /\ ValueApplied(uargs.optSort, SentFindOptions.sort)
           /\ ValueApplied(uargs.optProjection, SentFindOptions.projection)

\* the operations the method asked of the driver (cursor calls not counted)
OperationRequests ==
    {i \in DOMAIN events :
        events[i].kind = "driver" /\ events[i].op \notin ConnectionMethods}

\* the operation or the decoding of its cursor failed at position i
OperationFailedAt(i) ==
    /\ events[i].kind \in {"driver", "cursor"}
    /\ events[i].op \notin ConnectionMethods
    /\ ~events[i].ok

\* nil, 0 and (0, 0)
ZeroResults == {Nil, Count(0), BulkCounts(0, 0)}

\* C22: a client operation asks the driver at most once; when the driver
\* operation or the cursor decode fails, the method returns that error with a
\* nil / zero result and afterwards only closes the cursor and cancels the
\* context.
C22_OneDelegationNoRetry ==
    ucall \in ClientOperations
        => /\ Cardinality(OperationRequests) <= 1
           /\ Cardinality(OperationCalls) <= 1
           /\ \A i \in DOMAIN events :
                 OperationFailedAt(i)
                    => /\ uret.err = IF events[i].kind = "driver"
                                     THEN "driver error" ELSE "decode error"
                       /\ uret.val \in ZeroResults
                       /\ \A j \in (i + 1)..Len(events) :
                             \/ events[j].kind = "cancel"
                             \/ events[j].kind = "cursor" /\ events[j].op = "Close"

\* the driver refused a bulk write
C22_Witness ==
    /\ ucall = "BulkWrite"
    /\ uret = Ret(BulkCounts(0, 0), "driver error")
    /\ Cardinality(OperationCalls) = 1

\* the constructor was called with a URI, so that it prepared the options
OptionsPrepared == ConstructorCalled /\ events[1].connURI # <<>>

\* the options the constructor handed to mongo.Connect
ConnectOptions == driverCalls[1].opts

\* C23: prepareClientOptions gives, for nil, default options with the URI
\* applied; for a map[string]any or bson.M, URI-applied options overlaid with
\* the key-normalized map; for a non-nil *options.ClientOptions, these with
\* the URI applied; for a typed-nil *options.ClientOptions and any other type,
\* an error.  On every error NewClientWithOptions returns nil without connect
\* or ping.
C23_OptionsDispatchedByKind ==
    OptionsPrepared
        => LET opts == events[1].opts
               connURI == events[1].connURI
               prepared == StepOk(2, "prepareClientOptions")
           IN /\ opts.k = "nil"
                    => prepared /\ ConnectOptions = ClientOptions(connURI, "default", Nil)
              /\ (opts.k \in MapKinds /\ prepared)
                    => /\ ConnectOptions.uri = connURI
                       /\ ConnectOptions.source = "map"
                       /\ ConnectOptions.overlay.k = "map"
                       /\ DOMAIN ConnectOptions.overlay.v
                             = {toPascalCase(key) : key \in DOMAIN opts.v}
              /\ opts = Val("clientOptions", "set")
                    => prepared /\ ConnectOptions = ClientOptions(connURI, "pointer", Nil)
              /\ (opts = Val("clientOptions", "nil")
                     \/ opts.k \notin MapKinds \cup {"nil", "clientOptions"})
                    => ~prepared
              /\ ~prepared
                    => client = NilClient /\ driverCalls = <<>> /\ Len(events) = 2

\* a typed-nil *options.ClientOptions with a URI
C23_Witness ==
    /\ client = NilClient
    /\ events # <<>>
    /\ events[1].connURI = URI
    /\ events[1].opts = Val("clientOptions", "nil")
    /\ driverCalls = <<>>

\* C24: a Client made without retry options has retryWrites = retryReads =
\* TRUE, and one made with options that set retry_writes or retry_reads to
\* false has that field FALSE.
C24_RetryDefaultsCanBeOverridden ==
    (ConstructorCalled /\ client.kind = "client")
        => LET opts == events[1].opts
               sets(key) == opts.k \in MapKinds /\ key \in DOMAIN opts.v
           IN /\ client.retryWrites
                    = ~(sets(K_retry_writes) /\ opts.v[K_retry_writes] = False)
              /\ client.retryReads
                    = ~(sets(K_retry_reads) /\ opts.v[K_retry_reads] = False)

\* out holds, at every level that normalizeKeys visits, as many entries as in
RECURSIVE KeepsEntries(_, _)
KeepsEntries(in, out) ==
    IF in.k \in MapKinds
    THEN /\ out.k = "map"
         /\ Cardinality(DOMAIN out.v) = Cardinality(DOMAIN in.v)
         /\ \A key \in DOMAIN in.v :
               /\ toPascalCase(key) \in DOMAIN out.v
               /\ KeepsEntries(in.v[key], out.v[toPascalCase(key)])
    ELSE IF in.k = "sliceAny"
    THEN /\ out.k = "sliceAny"
         /\ Len(out.v) = Len(in.v)
         /\ \A i \in DOMAIN in.v : KeepsEntries(in.v[i], out.v[i])
    ELSE TRUE

\* C25: normalizeKeys never loses or merges entries: the map it returns has,
\* at every nesting level, as many entries as the map it was given.
C25_NoEntriesLostOrMerged ==
    pcNorm = "once" => KeepsEntries(norig, nresult)

\* C26: prepareUpdateDocument is idempotent: when it succeeds on x with
\* result y, it succeeds on y and returns y unchanged.
C26_PrepareUpdateDocumentIdempotent ==
    (ucall = "prepareUpdateDocument" /\ uret.err = "")
        => prepareUpdateDocument(uret.val) = Ret(uret.val, "")

\* the empty ordered document was wrapped, and the wrapper is kept as it is
C26_Witness ==
    /\ ucall = "prepareUpdateDocument"
    /\ udata = Val("bsonD", <<>>)
    /\ uret = Ret(Val("bsonD", <<E(K_set, udata)>>), "")
    /\ prepareUpdateDocument(uret.val) = uret

\* all top-level keys of a document begin with '$'
IsPureOperatorDocument(value) ==
    IsDocument(value) /\ \A key \in TopLevelKeys(value) : BeginsWithDollar(key)

\* C27: every payload prepareUpdateDocument returns without error is a
\* pipeline or a document all of whose top-level keys begin with '$'; a
\* document mixing operator keys and field keys is never returned as it is.
C27_ResultIsPipelineOrOperatorDocument ==
    (ucall = "prepareUpdateDocument" /\ uret.err = "")
        => \/ isPipelineUpdate(uret.val)
           \/ IsPureOperatorDocument(uret.val)

\* the error of the argument check of the method called, "" when its
\* argument passes or the method has no argument check
ArgumentError ==
    IF ucall = "Insert" /\ udata = Nil THEN "document cannot be nil"
    ELSE IF ucall = "InsertMany" /\ uargs.count = 0 THEN "documents array cannot be empty"
    ELSE IF ucall = "Find" /\ uargs.limit < 0 THEN "limit cannot be negative"
    ELSE IF ucall = "Aggregate" /\ udata = Nil THEN "pipeline cannot be nil"
    ELSE IF ucall \in {"Upsert", "UpdateOne", "UpdateMany", "FindOneAndUpdate"}
            /\ ufilter = Nil THEN "filter cannot be nil"
    ELSE IF ucall = "Distinct" /\ uargs.field = <<>> THEN "field name cannot be empty"
    ELSE IF ucall = "BulkWrite" /\ uargs.count = 0 THEN "operations array cannot be empty"
    ELSE ""

NamesError == validateDatabaseAndCollection(udatabase, ucollection)

C29_CallerOptionsUnchanged ==
    ConstructorCalled => nvalue = norig

\* C30: a setting given both in the URI and in the options argument is
\* resolved the same way for every accepted container: the options argument
\* wins for a map[string]any or bson.M and for a *options.ClientOptions.
C30_OptionsArgumentWinsOverURI ==
    (OptionsPrepared /\ StepOk(2, "prepareClientOptions")
        /\ events[1].opts.k \in MapKinds \cup {"clientOptions"})
        => LastApplied(ConnectOptions) = "options"

====
